---- MODULE Spec2Model ----
(***************************************************************************)
(* Model of tpDcc.libs.datalibrary.core.datalib.DataLibrary: the primary   *)
(* table, the four UUID-keyed side-stores (versions, thumbs, metadata,     *)
(* dependencies), and the operations add / sync / rename / move / remove   *)
(* with the side-store helpers they call.                                  *)
(*                                                                         *)
(* Paths are sequences of components: "C:/lib/a" is <<"C:", "lib", "a">>,  *)
(* "/lib/a" is <<"", "lib", "a">> and "./a" is <<".", "a">>.               *)
(* File names of the side-stores are sequences of their dot-separated      *)
(* parts: "{uuid}.1.json" is <<uuid, "1", "json">>.                        *)
(***************************************************************************)
EXTENDS Integers, Sequences, FiniteSets, TLC

\* ------------------------------------------------------------------ bounds
\* number of API calls and environment changes explored after the first sync()
MaxOps == 2
\* highest version number create_version produces for one item
MaxVersion == 2

\* ----------------------------------------------------------- the universe
\* absolute-path roots: a drive-letter root and the POSIX root
Roots == {"C:", ""}
\* names of the artifacts that exist in the scan location at start
FileNames == {"a", "b", ".git"}
\* the name rename() and move() give to an artifact
NewNames == {"c"}
\* thumbnail extensions
Exts == {"png", "jpg"}
\* relationship name written into dependency files
DepName == "file"
Stores == {"versions", "thumbs", "metadata", "dependencies"}

\* DataLibrary._black_list
black_list == {".git", ".gitattributes"}

\* BaseScanner.ScanStatus
VALID == 0
NOT_VALID == 1
UNKNOWN == 2

VARIABLES
  root,            \* root of the absolute paths of this host ("C:" or "")
  relative_paths,  \* DataLibrary._relative_paths
  disk,            \* absolute paths that exist below the library directory
  rows,            \* primary table: identifier -> [uuid, name, directory]
  db,              \* side tables of the database (thumbs, versions, meta, deps, tags)
  dirs,            \* side-store directory -> "present" | "missing" | "uncreatable"
  vers,            \* .versions: folder name (uuid) -> set of version numbers
  thumbs,          \* .thumbs: set of file names <<stem, ext>>
  meta,            \* .meta: set of file names (dot-separated parts)
  deps,            \* .dependencies: file stem (uuid) -> content
  pc,              \* position inside the running sync() call, "idle" otherwise
  ctx,             \* locals of the running sync() call
  trace,           \* steps of the current (or last) sync() call, in order
  last,            \* summary of the last finished API call
  prevSync,        \* what the previous call left, when it was a sync()
  ops,             \* number of calls made so far
  data_factory,    \* DataLibrary._data_factory: the registered DataPart classes, in
                   \* registration order, each with the path it was loaded from
  data_plugins,    \* DataLibrary._data_plugins: the list get() iterates
  plugin_locations,\* the 'plugin_locations' list of the settings
  search_data      \* _results, _grouped_results and _search_enabled of the library,
                   \* and the attribute _resulst that clear() assigns

registry == <<data_factory, data_plugins, plugin_locations>>

vars == <<root, relative_paths, disk, rows, db, dirs, vers, thumbs, meta, deps,
          pc, ctx, trace, last, prevSync, ops, registry, search_data>>

\* ------------------------------------------------------------------ paths
RECURSIVE JoinParts(_, _)
JoinParts(p, sep) ==
  IF Len(p) = 0 THEN ""
  ELSE IF Len(p) = 1 THEN p[1]
  ELSE p[1] \o sep \o JoinParts(Tail(p), sep)

\* path_utils.clean_path: doubled and trailing separators are dropped
RECURSIVE clean_path_from(_, _)
clean_path_from(p, i) ==
  IF i > Len(p) THEN <<>>
  ELSE IF i > 1 /\ p[i] = "" THEN clean_path_from(p, i + 1)
  ELSE <<p[i]>> \o clean_path_from(p, i + 1)

clean_path(p) == clean_path_from(p, 1)

isabs(p) == Len(p) >= 1 /\ p[1] \in Roots

dirname(p) == IF Len(p) <= 1 THEN <<>> ELSE SubSeq(p, 1, Len(p) - 1)

basename(p) == IF Len(p) = 0 THEN "" ELSE p[Len(p)]

\* os.path.join(a, b)
join(a, b) == IF isabs(b) THEN b ELSE a \o b

RECURSIVE CommonLen(_, _)
CommonLen(a, b) ==
  IF Len(a) = 0 \/ Len(b) = 0 \/ a[1] # b[1] THEN 0
  ELSE 1 + CommonLen(Tail(a), Tail(b))

\* os.path.relpath(p, start)
relpath(p, start) ==
  LET i == CommonLen(p, start)
      ups == [k \in 1..(Len(start) - i) |-> ".."]
      rest == SubSeq(p, i + 1, Len(p))
  IN IF Len(ups) = 0 /\ Len(rest) = 0 THEN <<".">> ELSE ups \o rest

\* DataLibrary.get_directory: the directory of the database file <root>/lib/data.db
get_directory_of(r) == clean_path(<<r, "lib">>)
get_directory == get_directory_of(root)

\* DataLibrary._get_relative_identifier
get_relative_identifier(identifier) ==
  LET id1 == IF isabs(identifier) THEN clean_path(relpath(identifier, get_directory))
             ELSE identifier
  IN IF id1 = <<".">> \/ (Len(id1) > 1 /\ id1[1] = ".") THEN id1
     ELSE clean_path(<<".">> \o id1)

\* DataLibrary.get_identifier
get_identifier(identifier) ==
  clean_path(IF relative_paths THEN get_relative_identifier(identifier) ELSE identifier)

\* mutant: the leading "./" of a stored identifier is kept when it is joined
format_identifier_unstripped(identifier) ==
  IF relative_paths THEN clean_path(join(get_directory, identifier)) ELSE identifier

\* DataLibrary.format_identifier
format_identifier(identifier) ==
  LET id1 == IF Len(identifier) > 1 /\ identifier[1] = "." THEN Tail(identifier)
             ELSE identifier
  IN IF relative_paths THEN clean_path(join(get_directory, id1)) ELSE id1

\* shortuuid.uuid(name): a deterministic hash of the name (collisions are not modelled)
shortuuid(name) == "u(" \o JoinParts(name, "/") \o ")"

\* mutant: the uuid is derived from the identifier as passed, not from the stored form
get_uuid_raw(identifier) == shortuuid(identifier)

\* DataLibrary.get_uuid
get_uuid(identifier) == shortuuid(get_identifier(identifier))

\* the scan location of the library: <library directory>/data
ScanLocation == get_directory \o <<"data">>
\* the absolute path of an artifact of the scan location
AbsPath(name) == ScanLocation \o <<name>>
\* the form the primary table stores
Stored(name) == get_identifier(AbsPath(name))

None == "None"

\* os.path.splitext(basename)[0]: the artifact names of this model carry no extension
name_of(identifier) == basename(identifier)

\* ------------------------------------------------- the database (sql/*.sql)
\* add_with_fields.sql: one row per identifier, inserted or replaced
sql_add_with_fields(r, identifier, fields) ==
  [i \in (DOMAIN r) \cup {identifier} |-> IF i = identifier THEN fields ELSE r[i]]

\* rename.sql: the row of identifier gets the new identifier, uuid and name;
\* the statement fails (and _execute swallows the error) when the new
\* identifier is already taken
sql_rename(r, identifier, new_identifier, new_uuid, new_name) ==
  IF identifier \notin DOMAIN r \/ new_identifier \in DOMAIN r THEN r
  ELSE [i \in ((DOMAIN r) \ {identifier}) \cup {new_identifier} |->
          IF i = new_identifier
          THEN [r[identifier] EXCEPT !.uuid = new_uuid, !.name = new_name]
          ELSE r[i]]

\* move.sql: as rename.sql, with the directory instead of the name
sql_move(r, identifier, new_identifier, new_uuid, new_directory) ==
  IF identifier \notin DOMAIN r \/ new_identifier \in DOMAIN r THEN r
  ELSE [i \in ((DOMAIN r) \ {identifier}) \cup {new_identifier} |->
          IF i = new_identifier
          THEN [r[identifier] EXCEPT !.uuid = new_uuid, !.directory = new_directory]
          ELSE r[i]]

\* remove.sql, executed for each identifier of idents
sql_remove(r, idents) == [i \in (DOMAIN r) \ idents |-> r[i]]

\* the dependency rows follow the primary rows they join
sql_rename_edges(d, identifier, new_identifier) ==
  LET ren(i) == IF i = identifier THEN new_identifier ELSE i
  IN {<<ren(e[1]), ren(e[2]), e[3]>> : e \in d}

sql_remove_edges(d, idents) == {e \in d : e[1] \notin idents /\ e[2] \notin idents}

\* dependency_add.sql
sql_dependency_add(d, r, root_identifier, dependency_identifier, name) ==
  IF root_identifier \in DOMAIN r /\ dependency_identifier \in DOMAIN r
  THEN {e \in d : ~(e[1] = root_identifier /\ e[2] = dependency_identifier)}
         \cup {<<root_identifier, dependency_identifier, name>>}
  ELSE d

\* find_all.sql, as DataLibrary.find(None) returns it
find_all(r) == DOMAIN r

\* DataLibrary.find_uuid
find_uuid(r, identifier) ==
  IF get_identifier(identifier) \in DOMAIN r THEN r[get_identifier(identifier)].uuid ELSE None

\* DataLibrary.find_identifier_from_uuid
find_identifiers_from_uuid(r, uuid) == {i \in DOMAIN r : r[i].uuid = uuid}

\* DataLibrary.get_dependencies(identifier, as_uuid=True): dependency uuid -> name
get_dependencies_uuid(w_rows, w_db, identifier) ==
  {<<w_rows[e[2]].uuid, e[3]>> :
     e \in {x \in w_db.deps : x[1] = get_identifier(identifier) /\ x[2] \in DOMAIN w_rows}}

\* ------------------------------------------------------------ the scanner
\* FileScannerPlugin.can_represent
can_represent(d, location) == location = ScanLocation \/ location \in d

\* FileScannerPlugin.identifiers(location, None, recursive=True): the location,
\* the walked root (the location again) and the files below it
ScanOrder == <<".git", "B", "a", "b", "c">>
identifiers(d, location) ==
  <<location, location>> \o
  SelectSeq([k \in 1..Len(ScanOrder) |-> location \o <<ScanOrder[k]>>], LAMBDA p : p \in d)

\* FileScannerPlugin.check
check(d, identifier) ==
  IF Len(identifier) < 2 \/ identifier[1] # "C:" THEN UNKNOWN
  ELSE IF identifier \notin d THEN NOT_VALID
  ELSE VALID

\* FileScannerPlugin.fields
fields(identifier) == [name |-> name_of(identifier), directory |-> dirname(identifier)]

\* DataLibrary._update_fields
update_fields(identifier, scanned_fields) ==
  [uuid |-> get_uuid(identifier),
   name |-> scanned_fields.name,
   directory |-> IF relative_paths THEN get_relative_identifier(scanned_fields.directory)
                 ELSE scanned_fields.directory]

\* mutant: the whole identifier is looked up in the blacklist
is_blacklisted_whole(identifier) == JoinParts(identifier, "/") \in black_list

\* the blacklist test of sync(): a path component is a blacklist entry
is_blacklisted(identifier) == \E k \in 1..Len(identifier) : identifier[k] \in black_list

\* ------------------------------------------------------- the side-stores
\* A world is the persistent state one call works on, with the outcome of the
\* call so far: raised is set as soon as an exception leaves a helper, log
\* holds the steps attempted, the warnings logged and the signals emitted.
World ==
  [rows |-> rows, db |-> db, dirs |-> dirs, vers |-> vers, thumbs |-> thumbs,
   meta |-> meta, deps |-> deps, raised |-> FALSE, log |-> <<>>,
   calls |-> 0, overflow |-> FALSE]

Logged(w, e) == [w EXCEPT !.log = Append(@, e)]
Raise(w) == [w EXCEPT !.raised = TRUE]

\* run F on every world of S that has not raised
Bind(S, F(_)) == UNION {IF w.raised THEN {w} ELSE F(w) : w \in S}

\* get_versions_path / get_thumbs_path / get_metadata_path / get_dependencies_path:
\* a missing directory is created; os.makedirs raises when it cannot be
get_path(w, store) ==
  IF w.dirs[store] = "uncreatable" THEN Raise(w)
  ELSE [w EXCEPT !.dirs[store] = "present"]

\* the stem of a side-store file name: os.path.splitext(f)[0].split('.')[0]
stem(f) == f[1]
\* os.path.splitext(f)[-1], without the dot
extension(f) == f[Len(f)]

\* DataLibrary.rename_metadata
rename_metadata(w, uuid, new_uuid) ==
  LET w1 == get_path(Logged(w, "rename_metadata"), "metadata")
      hits == {f \in w1.meta : stem(f) = uuid}
  IN IF w1.raised \/ hits = {} THEN {w1}
     ELSE {[w1 EXCEPT !.meta = (@ \ {f}) \cup {<<new_uuid, extension(f)>>}] : f \in hits}

\* thumb_set.sql
sql_thumb_set(d, uuid, thumb) ==
  [d EXCEPT !.thumbs = [u \in (DOMAIN d.thumbs) \cup {uuid} |->
                          IF u = uuid THEN thumb ELSE d.thumbs[u]]]

\* DataLibrary.rename_thumb
rename_thumb(w, uuid, new_uuid) ==
  LET w1 == get_path(Logged(w, "rename_thumb"), "thumbs")
      hits == {f \in w1.thumbs : stem(f) = uuid}
  IN IF w1.raised \/ hits = {} THEN {w1}
     ELSE {[w1 EXCEPT !.thumbs = (@ \ {f}) \cup {<<new_uuid, extension(f)>>},
                      !.db = sql_thumb_set(@, new_uuid, <<new_uuid, extension(f)>>)]
             : f \in hits}

\* DataLibrary.rename_version
rename_version(w, uuid, new_uuid) ==
  LET w1 == get_path(Logged(w, "rename_version"), "versions")
  IN IF w1.raised \/ uuid \notin DOMAIN w1.vers THEN {w1}
     ELSE {[w1 EXCEPT !.vers = [u \in ((DOMAIN w1.vers) \ {uuid}) \cup {new_uuid} |->
                                  IF u = new_uuid THEN w1.vers[uuid] ELSE w1.vers[u]]]}

\* a dependency file: ok is false when the file does not hold readable JSON,
\* data is the dictionary as a set of <<dependency uuid, name>>
DepFile(data) == [ok |-> TRUE, data |-> data]
CorruptFile == [ok |-> FALSE, data |-> {}]
keys(data) == {e[1] : e \in data}

\* the new content of one dependency file after the key uuid became new_uuid
rekey(data, uuid, new_uuid) ==
  {e \in data : e[1] # uuid /\ e[1] # new_uuid}
    \cup {<<new_uuid, e[2]>> : e \in {x \in data : x[1] = uuid}}

\* DataLibrary.rename_dependency
rename_dependency(w, uuid, new_uuid, current_dependencies) ==
  LET w1 == get_path(Logged(w, "rename_dependency"), "dependencies")
      listed == DOMAIN w1.deps
      \* first loop: the file of the renamed item
      d1 == IF uuid \in listed
            THEN [u \in (listed \ {uuid}) \cup {new_uuid} |->
                    IF u = new_uuid THEN w1.deps[uuid] ELSE w1.deps[u]]
            ELSE w1.deps
      \* second loop: the listed files of the dependencies that still exist
      visited == {u \in listed : u \in keys(current_dependencies) /\ u \in DOMAIN d1}
      unreadable == {u \in visited : ~d1[u].ok}
      hits == {u \in visited : d1[u].ok /\ uuid \in keys(d1[u].data)}
      rewrite(done) == [u \in DOMAIN d1 |->
                          IF u \in done THEN DepFile(rekey(d1[u].data, uuid, new_uuid))
                          ELSE d1[u]]
  IN IF w1.raised THEN {w1}
     ELSE IF unreadable = {} THEN {[w1 EXCEPT !.deps = rewrite(hits)]}
     \* jsonio.read_file raises on the first unreadable file in listing order
     ELSE {Raise([w1 EXCEPT !.deps = rewrite(done)]) : done \in SUBSET hits}

\* DataLibrary.delete_metadata: the loop stops at the first file it deletes
delete_metadata(w, uuids) ==
  LET w1 == get_path(Logged(w, "delete_metadata"), "metadata")
      hits == {f \in w1.meta : stem(f) \in uuids}
  IN IF w1.raised \/ hits = {} THEN {w1}
     ELSE {[w1 EXCEPT !.meta = @ \ {f}] : f \in hits}

\* DataLibrary.delete_thumb: the loop stops at the first file it deletes
delete_thumb(w, uuids) ==
  LET w1 == get_path(Logged(w, "delete_thumb"), "thumbs")
      hits == {f \in w1.thumbs : stem(f) \in uuids}
  IN IF w1.raised \/ hits = {} THEN {w1}
     ELSE {[w1 EXCEPT !.thumbs = @ \ {f}] : f \in hits}

\* DataLibrary.delete_version
delete_version(w, uuids) ==
  LET w1 == get_path(Logged(w, "delete_version"), "versions")
  IN IF w1.raised THEN {w1}
     ELSE {[w1 EXCEPT !.vers = [u \in (DOMAIN w1.vers) \ uuids |-> w1.vers[u]]]}

\* second loop of delete_dependencies: the keys in uuids leave every other file
unlink(d, uuids, done) ==
  [u \in DOMAIN d |->
     IF u \in done THEN DepFile({e \in d[u].data : e[1] \notin uuids}) ELSE d[u]]

\* mutant: the file of the removed item is read and left in place
delete_dependency_file_kept(d, f) == d

\* first loop of delete_dependencies: the file found is deleted
delete_dependency_file(d, f) == [u \in (DOMAIN d) \ {f} |-> d[u]]

\* DataLibrary.delete_dependencies; fuel bounds the depth of the recursion the
\* model follows, a call made without fuel is recorded as overflow
RECURSIVE delete_dependencies(_, _, _, _)
delete_dependencies(w, uuids, recursive, fuel) ==
  IF fuel = 0 THEN {[w EXCEPT !.overflow = TRUE]}
  ELSE
  LET w1 == get_path([Logged(w, "delete_dependencies") EXCEPT !.calls = @ + 1], "dependencies")
      hits == {u \in DOMAIN w1.deps : u \in uuids}
      \* the world after the first loop, with the dictionary it read
      first == IF hits = {} THEN {[w |-> w1, data |-> {}]}
               ELSE {IF w1.deps[f].ok
                     THEN [w |-> [w1 EXCEPT !.deps = delete_dependency_file(@, f)],
                           data |-> w1.deps[f].data]
                     ELSE [w |-> Raise(w1), data |-> {}] : f \in hits}
      second(x) ==
        LET d == x.w.deps
            unreadable == {u \in DOMAIN d : ~d[u].ok}
            touched == {u \in DOMAIN d : d[u].ok /\ keys(d[u].data) \cap uuids # {}}
        IN IF x.w.raised THEN {x}
           ELSE IF unreadable = {}
           THEN {[x EXCEPT !.w.deps = unlink(d, uuids, touched)]}
           ELSE {[x EXCEPT !.w = Raise([x.w EXCEPT !.deps = unlink(d, uuids, done)])]
                   : done \in SUBSET touched}
      third(x) ==
        IF x.w.raised \/ ~recursive \/ x.data = {} THEN {x.w}
        ELSE delete_dependencies(x.w, keys(x.data), TRUE, fuel - 1)
  IN IF w1.raised THEN {w1}
     ELSE UNION {UNION {third(y) : y \in second(x)} : x \in first}

\* ------------------------------------------------------ the data plugins
\* DataPart classes of the repository: DATA_TYPE, PRIORITY, supported_dccs()
\* and the extension can_represent() looks for ("" for FileData, which takes
\* every file)
FileData == [type |-> "file", PRIORITY |-> 3, dccs |-> {}, ext |-> ""]
TextData == [type |-> "txt", PRIORITY |-> 4, dccs |-> {}, ext |-> "txt"]
FBXData == [type |-> "dcc.fbx", PRIORITY |-> 15, dccs |-> {"maya", "max"}, ext |-> "fbx"]
MayaAsciiData == [type |-> "maya.ascii", PRIORITY |-> 10, dccs |-> {"maya"}, ext |-> "ma"]
MaxFileData == [type |-> "max.file", PRIORITY |-> 10, dccs |-> {"max"}, ext |-> "max"]

\* the plugin paths and the classes a PluginFactory loads from each
PluginPaths == {"data", "dccs/maya/data"}
PluginsAt(location) ==
  IF location = "data" THEN <<FileData, FBXData, TextData>> ELSE <<MayaAsciiData>>

\* PluginFactory.plugins()
plugins(factory) == [k \in 1..Len(factory) |-> factory[k].cls]

\* PluginFactory.register_path: the classes of the path that are not yet registered
RECURSIVE register_all(_, _, _)
register_all(factory, classes, location) ==
  IF classes = <<>> THEN factory
  ELSE register_all(
         IF \E k \in 1..Len(factory) : factory[k].cls = Head(classes) THEN factory
         ELSE Append(factory, [cls |-> Head(classes), path |-> location]),
         Tail(classes), location)

\* PluginFactory.unregister_path
unregister_path(factory, location) == SelectSeq(factory, LAMBDA e : e.path # location)

\* sorted(list, key=PRIORITY, reverse=True): stable, highest priority first
RECURSIVE sorted_by_priority(_)
sorted_by_priority(list) ==
  IF list = <<>> THEN <<>>
  ELSE LET x == Head(list)
           rest == sorted_by_priority(Tail(list))
           before == SelectSeq(rest, LAMBDA y : y.PRIORITY > x.PRIORITY)
           after == SelectSeq(rest, LAMBDA y : y.PRIORITY <= x.PRIORITY)
       IN before \o <<x>> \o after

\* mutant: the cache is refreshed without sorting
sort_data_plugins_unsorted(factory) == plugins(factory)

\* DataLibrary._sort_data_plugins
sort_data_plugins(factory) == sorted_by_priority(plugins(factory))

\* the registry after DataLibrary.__init__: the default plugin paths loaded
InitRegistry ==
  /\ data_factory = register_all(<<>>, PluginsAt("data"), "data")
  /\ data_plugins = sort_data_plugins(register_all(<<>>, PluginsAt("data"), "data"))
  /\ plugin_locations = <<>>

\* the search data after DataLibrary.__init__; a list of items is the set of
\* its entries
InitSearch ==
  search_data = [results |-> {}, grouped_results |-> <<>>, search_enabled |-> TRUE,
                 resulst |-> {}]

\* ------------------------------------------------------------------- Init
NoRows == [i \in {} |-> 0]
EmptyDb == [thumbs |-> NoRows, versions |-> {}, meta |-> {}, deps |-> {}, tags |-> {}]
NoSync == [valid |-> FALSE, rows |-> NoRows, disk |-> {}]
Idle == [full |-> FALSE, scanned |-> <<>>, blacklisted |-> <<>>, emitted |-> <<>>,
         before |-> NoRows, twice |-> FALSE, first |-> NoRows, missing |-> {},
         cleaned |-> FALSE, indexed |-> {}, log |-> <<>>]

\* DataLibrary.__init__ and init(): an empty database below <root>/lib, the four
\* side-store directories created, the artifacts in the scan location
Init ==
  /\ root \in Roots
  /\ relative_paths \in BOOLEAN
  /\ disk = {get_directory_of(root) \o <<"data", n>> : n \in FileNames}
  /\ rows = NoRows
  /\ db = EmptyDb
  /\ dirs = [s \in Stores |-> "present"]
  /\ vers = NoRows
  /\ thumbs = {}
  /\ meta = {}
  /\ deps = NoRows
  /\ pc = "idle"
  /\ ctx = Idle
  /\ trace = <<>>
  /\ last = [op |-> "init"]
  /\ prevSync = NoSync
  /\ ops = 0
  /\ InitRegistry
  /\ InitSearch

\* a call starts only when no sync() is running (the library is single-threaded)
CanCall == pc = "idle" /\ ops < MaxOps

\* the persistent state after a call
Commit(w) ==
  /\ rows' = w.rows
  /\ db' = w.db
  /\ dirs' = w.dirs
  /\ vers' = w.vers
  /\ thumbs' = w.thumbs
  /\ meta' = w.meta
  /\ deps' = w.deps

Called == /\ ops' = ops + 1
          /\ prevSync' = NoSync
          /\ UNCHANGED <<search_data, registry, root, relative_paths, pc, ctx, trace>>

\* -------------------------------------------------------------------- add
\* DataLibrary.add
add(w, identifier0) ==
  LET identifier == get_identifier(identifier0)
      full_identifier == format_identifier(identifier)
  IN IF ~can_represent(disk, full_identifier) THEN w
     ELSE [w EXCEPT !.rows = sql_add_with_fields(
                      @, identifier, update_fields(full_identifier, fields(full_identifier)))]

Add(identifier) ==
  /\ CanCall
  /\ Commit(add(World, identifier))
  /\ last' = [op |-> "add", identifier |-> identifier]
  /\ Called
  /\ UNCHANGED disk

\* ------------------------------------------------------- rename and move
\* what the side-stores hold under one uuid
Keyed(w, uuid) ==
  [version |-> uuid \in DOMAIN w.vers,
   thumbs |-> {f \in w.thumbs : stem(f) = uuid},
   meta |-> {f \in w.meta : stem(f) = uuid},
   dependency |-> uuid \in DOMAIN w.deps,
   referrers |-> {u \in DOMAIN w.deps : u # uuid /\ uuid \in keys(w.deps[u].data)}]

NothingKeyed ==
  [version |-> FALSE, thumbs |-> {}, meta |-> {}, dependency |-> FALSE, referrers |-> {}]

\* the four migrations of rename() and move(), in the order of the code
migrate(w, current_uuid, new_uuid, current_dependencies) ==
  LET s1 == rename_metadata(w, current_uuid, new_uuid)
      s2 == Bind(s1, LAMBDA x : rename_thumb(x, current_uuid, new_uuid))
      s3 == Bind(s2, LAMBDA x : rename_version(x, current_uuid, new_uuid))
  IN Bind(s3, LAMBDA x : rename_dependency(x, current_uuid, new_uuid, current_dependencies))

\* DataLibrary.rename
rename(w, identifier0, new_identifier0) ==
  LET identifier == get_identifier(identifier0)
      new_identifier == get_identifier(new_identifier0)
      current_uuid == find_uuid(w.rows, identifier)
      new_uuid == get_uuid(new_identifier)
      new_name == name_of(new_identifier)
      current_dependencies == get_dependencies_uuid(w.rows, w.db, identifier)
      w1 == [w EXCEPT !.rows = sql_rename(@, identifier, new_identifier, new_uuid, new_name),
                      !.db.deps = sql_rename_edges(@, identifier, new_identifier)]
  IN IF current_uuid = None THEN {w}
     ELSE Bind(migrate(Logged(w1, "row"), current_uuid, new_uuid, current_dependencies),
               LAMBDA x : {Logged(x, "dataChanged")})

\* DataLibrary.move
move(w, identifier0, new_identifier0) ==
  LET identifier == get_identifier(identifier0)
      new_identifier == get_identifier(new_identifier0)
      current_uuid == find_uuid(w.rows, identifier)
      new_uuid == get_uuid(new_identifier)
      new_directory == get_identifier(dirname(new_identifier))
      current_dependencies == get_dependencies_uuid(w.rows, w.db, identifier)
      w1 == [w EXCEPT !.rows = sql_move(@, identifier, new_identifier, new_uuid, new_directory),
                      !.db.deps = sql_rename_edges(@, identifier, new_identifier)]
  IN IF current_uuid = None THEN {w}
     ELSE migrate(Logged(w1, "row"), current_uuid, new_uuid, current_dependencies)

\* the new identifier is not indexed and nothing is stored under its uuid
Fresh(identifier) ==
  /\ get_identifier(identifier) \notin DOMAIN rows
  /\ Keyed(World, get_uuid(identifier)) = NothingKeyed

Renamed(op, identifier, new_identifier, w) ==
  [op |-> op, identifier |-> get_identifier(identifier),
   new_identifier |-> get_identifier(new_identifier),
   uuid |-> find_uuid(rows, identifier), new_uuid |-> get_uuid(new_identifier),
   before |-> IF find_uuid(rows, identifier) = None THEN NothingKeyed
              ELSE Keyed(World, find_uuid(rows, identifier)),
   raised |-> w.raised, log |-> w.log]

Rename(identifier, new_identifier) ==
  /\ CanCall
  /\ Fresh(new_identifier)
  /\ \E w \in rename(World, identifier, new_identifier) :
       /\ Commit(w)
       /\ last' = Renamed("rename", identifier, new_identifier, w)
  /\ Called
  /\ UNCHANGED disk

Move(identifier, new_identifier) ==
  /\ CanCall
  /\ Fresh(new_identifier)
  /\ \E w \in move(World, identifier, new_identifier) :
       /\ Commit(w)
       /\ last' = Renamed("move", identifier, new_identifier, w)
  /\ Called
  /\ UNCHANGED disk

\* ----------------------------------------------------------------- remove
\* the uuids the dependency files reach from a set of uuids
RECURSIVE Reach(_, _)
Reach(d, S) ==
  LET more == S \cup UNION {keys(d[u].data) : u \in S \cap DOMAIN d}
  IN IF more = S THEN S ELSE Reach(d, more)

\* DataLibrary.remove
remove(w, identifiers0, recursive) ==
  LET idents == {get_identifier(i) : i \in identifiers0}
      uuids == {find_uuid(w.rows, i) : i \in idents} \ {None}
      w1 == [w EXCEPT !.rows = sql_remove(@, idents),
                      !.db.deps = sql_remove_edges(@, idents),
                      !.log = IF idents = {} THEN @ ELSE Append(@, "dataChanged")]
      s1 == delete_metadata(w1, uuids)
      s2 == Bind(s1, LAMBDA x : delete_thumb(x, uuids))
      s3 == Bind(s2, LAMBDA x : delete_version(x, uuids))
  IN IF uuids = {} THEN {w1}
     ELSE Bind(s3, LAMBDA x : delete_dependencies(x, uuids, recursive,
                                                  Cardinality(DOMAIN w.deps) + 2))

Removed(identifiers0, recursive, w) ==
  LET uuids == {find_uuid(rows, i) : i \in identifiers0} \ {None}
  IN [op |-> "remove", identifiers |-> {get_identifier(i) : i \in identifiers0},
      recursive |-> recursive, uuids |-> uuids,
      reached |-> Reach(deps, uuids),
      reached_identifiers |-> {i \in DOMAIN rows : rows[i].uuid \in Reach(deps, uuids)},
      files |-> Cardinality(DOMAIN deps),
      cyclic |-> \E u \in uuids \cap DOMAIN deps : \E v \in (DOMAIN deps) \ {u} :
                   v \in keys(deps[u].data) /\ u \in keys(deps[v].data),
      calls |-> w.calls, overflow |-> w.overflow, raised |-> w.raised, log |-> w.log]

Remove(identifiers0, recursive) ==
  /\ CanCall
  /\ \E w \in remove(World, identifiers0, recursive) :
       /\ Commit(w)
       /\ last' = Removed(identifiers0, recursive, w)
  /\ Called
  /\ UNCHANGED disk

\* ---------------------------------------------------------------- cleanup
\* DataLibrary.get_all_uuids
get_all_uuids(r) == {r[i].uuid : i \in DOMAIN r}

\* DataLibrary.clean_versions
clean_versions(w) ==
  LET w1 == get_path(Logged(w, "clean_versions"), "versions")
  IN IF w1.raised THEN w1
     ELSE [w1 EXCEPT !.vers = [u \in (DOMAIN @) \cap get_all_uuids(w1.rows) |-> @[u]]]

\* DataLibrary.clean_thumbnails
clean_thumbnails(w) ==
  LET w1 == get_path(Logged(w, "clean_thumbnails"), "thumbs")
  IN IF w1.raised THEN w1
     ELSE [w1 EXCEPT !.thumbs = {f \in @ : stem(f) \in get_all_uuids(w1.rows)}]

\* DataLibrary.clean_metadata
clean_metadata(w) ==
  LET w1 == get_path(Logged(w, "clean_metadata"), "metadata")
  IN IF w1.raised THEN w1
     ELSE [w1 EXCEPT !.meta = {f \in @ : stem(f) \in get_all_uuids(w1.rows)}]

\* the keys of a dependency file that are not uuids of the primary table
stale_keys(file, all_uuids) == {k \in keys(file.data) : k \notin all_uuids}

\* DataLibrary.clean_dependencies: the first loop deletes the files of unknown
\* uuids; the second loop pops the unknown keys from the dictionary it is
\* iterating, which makes the iteration raise RuntimeError before the file
\* is written back, and raises on a file that cannot be read
clean_dependencies(w) ==
  LET w1 == get_path(Logged(w, "clean_dependencies"), "dependencies")
      all_uuids == get_all_uuids(w1.rows)
      w2 == [w1 EXCEPT !.deps = [u \in (DOMAIN @) \cap all_uuids |-> @[u]]]
  IN IF w1.raised THEN w1
     ELSE IF \E u \in DOMAIN w2.deps : ~w2.deps[u].ok \/ stale_keys(w2.deps[u], all_uuids) # {}
     THEN Raise(w2)
     ELSE w2

\* DataLibrary.cleanup
cleanup(w) ==
  LET w1 == clean_versions(w)
      w2 == IF w1.raised THEN w1 ELSE clean_thumbnails(w1)
      w3 == IF w2.raised THEN w2 ELSE clean_metadata(w2)
  IN IF w3.raised THEN w3 ELSE clean_dependencies(w3)

Cleanup ==
  /\ CanCall
  /\ Commit(cleanup(World))
  /\ last' = [op |-> "cleanup", raised |-> cleanup(World).raised,
              readable |-> /\ \A u \in DOMAIN deps : deps[u].ok
                           /\ \A st \in Stores : dirs[st] # "uncreatable",
              log |-> cleanup(World).log]
  /\ Called
  /\ UNCHANGED disk

\* ---------------------------------------------- DataPart side-store writers
\* DataPart.store_thumbnail, on the composite of an existing artifact
store_thumbnail(w, identifier, ext) ==
  LET thumb_name == <<get_uuid(identifier), ext>>
      w1 == get_path(w, "thumbs")
  IN IF w1.raised THEN w1
     ELSE [w1 EXCEPT !.thumbs = @ \cup {thumb_name},
                     !.db = sql_thumb_set(@, find_uuid(w.rows, identifier), thumb_name)]

StoreThumbnail(identifier, ext) ==
  /\ CanCall
  /\ format_identifier(get_identifier(identifier)) \in disk
  /\ Commit(store_thumbnail(World, identifier, ext))
  /\ last' = [op |-> "store_thumbnail", identifier |-> identifier]
  /\ Called
  /\ UNCHANGED disk

Max(S) == CHOOSE n \in S : \A m \in S : m <= n

\* DataPart.create_version with create_metadata: a new version in the version
\* folder of the item and the metadata file {uuid}.{version}.json
create_version(w, identifier) ==
  LET uuid == find_uuid(w.rows, identifier)
      w1 == get_path(w, "versions")
      old == IF uuid \in DOMAIN w1.vers THEN w1.vers[uuid] ELSE {}
      version == IF old = {} THEN 1 ELSE Max(old) + 1
      w2 == [w1 EXCEPT !.vers = [u \in (DOMAIN w1.vers) \cup {uuid} |->
                                   IF u = uuid THEN old \cup {version} ELSE w1.vers[u]]]
      w3 == get_path(w2, "metadata")
  IN IF w1.raised THEN w1
     ELSE IF w3.raised THEN w3
     ELSE [w3 EXCEPT !.meta = @ \cup {<<get_uuid(identifier), ToString(version), "json">>},
                     !.db.meta = @ \cup {<<uuid, ToString(version)>>}]

CreateVersion(identifier) ==
  /\ CanCall
  /\ format_identifier(get_identifier(identifier)) \in disk
  /\ find_uuid(rows, identifier) # None
  /\ \A n \in (IF find_uuid(rows, identifier) \in DOMAIN vers
                 THEN vers[find_uuid(rows, identifier)] ELSE {}) : n < MaxVersion
  /\ Commit(create_version(World, identifier))
  /\ last' = [op |-> "create_version", identifier |-> identifier]
  /\ Called
  /\ UNCHANGED disk

\* FileData.can_represent(identifier, only_extension=False), the data plugin
\* DataLibrary.get() binds: the formatted identifier is a file on disk
get(identifier) == format_identifier(identifier) \in disk

\* DataLibrary.add_dependency
add_dependency(w, root_identifier, dependency_identifier, name) ==
  [w EXCEPT !.db.deps = sql_dependency_add(@, w.rows, get_identifier(root_identifier),
                                           get_identifier(dependency_identifier), name)]

RECURSIVE add_dependencies(_, _, _)
add_dependencies(w, root_identifier, all_dependencies) ==
  IF all_dependencies = {} THEN w
  ELSE LET e == CHOOSE x \in all_dependencies : TRUE
       IN add_dependencies(add_dependency(w, root_identifier, e[1], e[2]),
                           root_identifier, all_dependencies \ {e})

\* the dependencies DataPart.update_dependencies works on: the ones of the
\* item's file that are still indexed, and the ones given
all_dependencies_of(w, identifier, dependencies) ==
  LET uuid == get_uuid(identifier)
      current == IF uuid \in DOMAIN w.deps THEN w.deps[uuid].data ELSE {}
  IN UNION {{<<i, e[2]>> : i \in find_identifiers_from_uuid(w.rows, e[1])} : e \in current}
       \cup dependencies

\* DataPart.update_dependencies without its recursive part: the file of the
\* item is created when missing, read, and rewritten from the database edges
update_own_dependencies(w, identifier, dependencies) ==
  LET uuid == get_uuid(identifier)
      w1 == get_path(w, "dependencies")
      w2 == add_dependencies(w1, identifier, all_dependencies_of(w1, identifier, dependencies))
      now == get_dependencies_uuid(w2.rows, w2.db, identifier)
  IN IF w1.raised THEN w1
     ELSE IF uuid \in DOMAIN w1.deps /\ ~w1.deps[uuid].ok THEN Raise(w1)
     ELSE IF now = {} THEN [w2 EXCEPT !.deps = [u \in (DOMAIN @) \ {uuid} |-> @[u]]]
     ELSE [w2 EXCEPT !.deps = [u \in (DOMAIN @) \cup {uuid} |->
                                 IF u = uuid THEN DepFile(now) ELSE @[u]]]

\* the recursive part: every dependency that get() can represent links back
RECURSIVE update_related(_, _, _)
update_related(W, identifier, todo) ==
  IF todo = {} THEN W
  ELSE UNION {update_related(
                Bind(W, LAMBDA w : {IF get(d) THEN update_own_dependencies(
                                                     w, d, {<<format_identifier(get_identifier(identifier)), DepName>>})
                                    ELSE w}),
                identifier, todo \ {d}) : d \in todo}

\* DataPart.update_dependencies(dependencies, recursive=True)
update_dependencies(w, identifier, dependencies) ==
  LET all_dependencies == all_dependencies_of(w, identifier, dependencies)
  IN update_related({update_own_dependencies(w, identifier, dependencies)},
                    identifier, {e[1] : e \in all_dependencies})

UpdateDependencies(identifier, dependency) ==
  /\ CanCall
  /\ get(get_identifier(identifier))
  /\ \E w \in update_dependencies(World, identifier, {<<dependency, DepName>>}) :
       /\ Commit(w)
       /\ last' = [op |-> "update_dependencies", identifier |-> identifier, raised |-> w.raised]
  /\ Called
  /\ UNCHANGED disk

\* --------------------------------------------------------- the environment
Quiet == /\ last' = [op |-> "environment"]
         /\ Called

\* an artifact is deleted from the scan location
DiskDelete(name) ==
  /\ CanCall
  /\ AbsPath(name) \in disk
  /\ disk' = disk \ {AbsPath(name)}
  /\ Quiet
  /\ UNCHANGED <<rows, db, dirs, vers, thumbs, meta, deps>>

\* the uuids of the artifacts that carry side-store data
Uuids == {get_uuid(AbsPath(n)) : n \in FileNames \ black_list}
\* the uuids a dependency file may list: the ones above and the uuid of an
\* artifact that is not in the scan location
DepKeys == Uuids \cup {get_uuid(AbsPath(n)) : n \in NewNames}
DepFiles == {DepFile(D \X {DepName}) : D \in (SUBSET DepKeys) \ {{}}} \cup {CorruptFile}

\* a dependency file is written beside the database (by an earlier session, by
\* DataPart.update_dependencies, or damaged on disk)
PutDepFile(uuid, content) ==
  /\ CanCall
  /\ dirs["dependencies"] = "present"
  /\ deps' = [u \in (DOMAIN deps) \cup {uuid} |-> IF u = uuid THEN content ELSE deps[u]]
  /\ Quiet
  /\ UNCHANGED <<disk, rows, db, dirs, vers, thumbs, meta>>

\* a side-store directory disappears with its content; "uncreatable" when its
\* path can no longer be created (os.makedirs raises)
LoseDir(store, how) ==
  /\ CanCall
  /\ dirs[store] = "present"
  /\ dirs' = [dirs EXCEPT ![store] = how]
  /\ vers' = IF store = "versions" THEN NoRows ELSE vers
  /\ thumbs' = IF store = "thumbs" THEN {} ELSE thumbs
  /\ meta' = IF store = "metadata" THEN {} ELSE meta
  /\ deps' = IF store = "dependencies" THEN NoRows ELSE deps
  /\ Quiet
  /\ UNCHANGED <<disk, rows, db>>

\* ------------------------------------------------------------------- sync
Range(q) == {q[k] : k \in 1..Len(q)}

\* the identifier sync() stores for a scanned one
stored_form(identifier) ==
  IF relative_paths THEN get_relative_identifier(identifier) ELSE identifier

\* the scan loop of sync(): one upsert per scanned identifier that is neither
\* the location nor blacklisted; x is [rows, scanned, blacklisted, emitted]
RECURSIVE scan(_, _, _, _)
scan(x, location, found, k) ==
  IF k > Len(found) THEN x
  ELSE LET identifier == found[k]
       IN IF identifier = location THEN scan(x, location, found, k + 1)
          ELSE IF is_blacklisted(identifier)
          THEN scan([x EXCEPT !.blacklisted = Append(@, identifier)], location, found, k + 1)
          ELSE scan([x EXCEPT
                       !.rows = sql_add_with_fields(@, stored_form(identifier),
                                  update_fields(identifier, fields(identifier))),
                       !.emitted = Append(@, stored_form(identifier)),
                       !.scanned = Append(@, stored_form(identifier))],
                    location, found, k + 1)

\* mutant: the versions pass is entered before the tags pass
next_step_swapped(step, full) ==
  CASE step = "scan" -> IF full THEN "versions" ELSE "clean"
    [] step = "versions" -> "tags"
    [] step = "tags" -> "metadata"
    [] step = "metadata" -> "thumbs"
    [] step = "thumbs" -> "dependencies"
    [] step = "dependencies" -> "clean"
    [] step = "clean" -> "completed"
    [] OTHER -> "idle"

\* the control flow of sync() after the scan loop
next_step(step, full) ==
  CASE step = "scan" -> IF full THEN "tags" ELSE "clean"
    [] step = "tags" -> "versions"
    [] step = "versions" -> "metadata"
    [] step = "metadata" -> "thumbs"
    [] step = "thumbs" -> "dependencies"
    [] step = "dependencies" -> "clean"
    [] step = "clean" -> "completed"
    [] OTHER -> "idle"

InSync == /\ UNCHANGED <<search_data, registry, root, relative_paths, disk, ops, prevSync>>

\* sync(full): the scan loop and its commit
SyncScan(full) ==
  /\ pc = "idle"
  /\ last.op = "init" \/ ops < MaxOps
  /\ LET x == scan([rows |-> rows, scanned |-> <<>>, blacklisted |-> <<>>, emitted |-> <<>>],
                   ScanLocation, identifiers(disk, ScanLocation), 1)
     IN /\ rows' = x.rows
        /\ ctx' = [full |-> full, scanned |-> x.scanned, blacklisted |-> x.blacklisted,
                   emitted |-> x.emitted, before |-> rows,
                   twice |-> prevSync.valid /\ prevSync.disk = disk,
                   first |-> prevSync.rows,
                   missing |-> {s \in Stores : dirs[s] # "present"},
                   cleaned |-> FALSE, indexed |-> {}, log |-> <<>>]
  /\ trace' = <<"scan">>
  /\ pc' = next_step("scan", full)
  /\ last' = [op |-> "sync", finished |-> FALSE, raised |-> FALSE]
  /\ ops' = IF last.op = "init" THEN ops ELSE ops + 1
  /\ prevSync' = NoSync
  /\ UNCHANGED <<search_data, registry, root, relative_paths, disk, db, dirs, vers, thumbs, meta, deps>>

\* one step of the running sync() ends in world w
Stepped(step, w) ==
  /\ Commit(w)
  /\ ctx' = [ctx EXCEPT !.log = @ \o w.log]
  /\ trace' = IF w.raised THEN trace \o <<step, "raised">> ELSE Append(trace, step)
  /\ pc' = IF w.raised THEN "idle" ELSE next_step(step, ctx.full)
  /\ last' = IF w.raised THEN [op |-> "sync", finished |-> TRUE, raised |-> TRUE] ELSE last
  /\ InSync

\* FileData.mandatory_tags: os.path.splitext of the base name
mandatory_tags(identifier) == {name_of(identifier), ""}

\* DataLibrary.sync_tags
sync_tags(w, identifiers0) ==
  {[w EXCEPT !.db.tags =
      @ \cup UNION {{<<i, t>> : t \in mandatory_tags(i)} : i \in {j \in identifiers0 : get(j)}}]}

\* the guard of every side pass: the pass is skipped with a warning when its
\* directory is not there after get_*_path() returned
skipped(w, store) == w.dirs[store] # "present"

\* DataLibrary.sync_versions
sync_versions(w, identifiers0) ==
  LET w1 == get_path(w, "versions")
      folders == {find_uuid(w1.rows, i) : i \in identifiers0} \cap DOMAIN w1.vers
  IN IF w1.raised THEN {w1}
     ELSE IF skipped(w1, "versions") THEN {Logged(w1, "warning:versions")}
     ELSE {[w1 EXCEPT !.db.versions = @ \cup UNION {{<<u, n>> : n \in w1.vers[u]} : u \in folders}]}

\* DataLibrary.sync_metadata: the version is the last but one part of the file name
sync_metadata(w, identifiers0) ==
  LET w1 == get_path(w, "metadata")
      found == {<<i, f>> \in identifiers0 \X w1.meta : stem(f) = get_uuid(i)}
  IN IF w1.raised THEN {w1}
     ELSE IF skipped(w1, "metadata") THEN {Logged(w1, "warning:metadata")}
     ELSE {[w1 EXCEPT !.db.meta =
              @ \cup {<<find_uuid(w1.rows, x[1]), x[2][Len(x[2]) - 1]>> : x \in found}]}

\* DataLibrary.sync_thumbs: set_thumb for every file of the uuid, the last one
\* listed stays
sync_thumbs(w, identifiers0) ==
  LET w1 == get_path(w, "thumbs")
      with == {i \in identifiers0 : \E f \in w1.thumbs : stem(f) = get_uuid(i)}
      picks == {p \in [with -> w1.thumbs] : \A i \in with : stem(p[i]) = get_uuid(i)}
      set(p) == [u \in (DOMAIN w1.db.thumbs) \cup {find_uuid(w1.rows, i) : i \in with} |->
                   IF \E i \in with : find_uuid(w1.rows, i) = u
                   THEN p[CHOOSE i \in with : find_uuid(w1.rows, i) = u]
                   ELSE w1.db.thumbs[u]]
  IN IF w1.raised THEN {w1}
     ELSE IF skipped(w1, "thumbs") THEN {Logged(w1, "warning:thumbs")}
     ELSE {[w1 EXCEPT !.db.thumbs = set(p)] : p \in picks}

\* DataLibrary.sync_dependencies: unreadable files are passed over
sync_dependencies(w, identifiers0) ==
  LET w1 == get_path(w, "dependencies")
      readable == {i \in identifiers0 : get_uuid(i) \in DOMAIN w1.deps /\ w1.deps[get_uuid(i)].ok}
      edges == UNION {{<<i, j, e[2]>> : j \in find_identifiers_from_uuid(w1.rows, e[1])}
                        : <<i, e>> \in {x \in readable \X (Uuids \X {DepName}) :
                                           x[2] \in w1.deps[get_uuid(x[1])].data}}
  IN IF w1.raised THEN {w1}
     ELSE IF skipped(w1, "dependencies") THEN {Logged(w1, "warning:dependencies")}
     ELSE {[w1 EXCEPT !.db.deps =
              {d \in @ : ~\E e \in edges : e[1] = d[1] /\ e[2] = d[2]} \cup edges]}

\* mutant: everything a scanner does not report VALID is purged
must_clean_not_valid(identifier, blacklisted_identifiers) ==
  check(disk, format_identifier(identifier)) # VALID
    \/ format_identifier(identifier) \in blacklisted_identifiers

\* the test of clean_invalid_identifiers on one indexed identifier
must_clean(identifier, blacklisted_identifiers) ==
  check(disk, format_identifier(identifier)) = NOT_VALID
    \/ format_identifier(identifier) \in blacklisted_identifiers

\* DataLibrary.clean_invalid_identifiers
clean_invalid_identifiers(w, blacklisted_identifiers) ==
  remove(w, {i \in find_all(w.rows) : must_clean(i, blacklisted_identifiers)}, TRUE)

SyncTags ==
  /\ pc = "tags"
  /\ \E w \in sync_tags(World, Range(ctx.scanned)) : Stepped("tags", w)

SyncVersions ==
  /\ pc = "versions"
  /\ \E w \in sync_versions(World, Range(ctx.scanned)) : Stepped("versions", w)

SyncMetadata ==
  /\ pc = "metadata"
  /\ \E w \in sync_metadata(World, Range(ctx.scanned)) : Stepped("metadata", w)

SyncThumbs ==
  /\ pc = "thumbs"
  /\ \E w \in sync_thumbs(World, Range(ctx.scanned)) : Stepped("thumbs", w)

SyncDependencies ==
  /\ pc = "dependencies"
  /\ \E w \in sync_dependencies(World, Range(ctx.scanned)) : Stepped("dependencies", w)

SyncClean ==
  /\ pc = "clean"
  /\ \E w \in clean_invalid_identifiers(World, Range(ctx.blacklisted)) :
       /\ Commit(w)
       /\ ctx' = [ctx EXCEPT !.cleaned = TRUE, !.indexed = DOMAIN rows, !.log = @ \o w.log]
       /\ trace' = IF w.raised THEN trace \o <<"clean", "raised">> ELSE Append(trace, "clean")
       /\ pc' = IF w.raised THEN "idle" ELSE next_step("clean", ctx.full)
       /\ last' = IF w.raised THEN [op |-> "sync", finished |-> TRUE, raised |-> TRUE] ELSE last
       /\ InSync

\* the end of sync(): _post_sync, syncCompleted and dataChanged
SyncCompleted ==
  /\ pc = "completed"
  /\ trace' = Append(trace, "completed")
  /\ ctx' = [ctx EXCEPT !.log = @ \o <<"syncCompleted", "dataChanged">>]
  /\ pc' = "idle"
  /\ last' = [op |-> "sync", finished |-> TRUE, raised |-> FALSE]
  /\ prevSync' = [valid |-> TRUE, rows |-> rows, disk |-> disk]
  /\ UNCHANGED <<search_data, registry, root, relative_paths, disk, rows, db, dirs, vers, thumbs, meta, deps, ops>>

\* ------------------------------------------------------------------- Next
DataNames == FileNames \ black_list

Next ==
  \/ \E n \in FileNames : Add(<<".", "data", n>>)
  \/ \E full \in BOOLEAN : SyncScan(full)
  \/ SyncTags
  \/ SyncVersions
  \/ SyncMetadata
  \/ SyncThumbs
  \/ SyncDependencies
  \/ SyncClean
  \/ SyncCompleted
  \/ \E n \in DataNames, c \in NewNames : Rename(AbsPath(n), AbsPath(c))
  \/ \E n \in DataNames, c \in NewNames : Move(AbsPath(n), AbsPath(c))
  \/ \E S \in (SUBSET DataNames) \ {{}}, recursive \in BOOLEAN :
        Remove({Stored(n) : n \in S}, recursive)
  \/ \E n \in DataNames, e \in Exts : StoreThumbnail(Stored(n), e)
  \/ \E n \in DataNames : CreateVersion(Stored(n))
  \/ \E n \in FileNames : DiskDelete(n)
  \/ \E n \in DataNames, m \in DataNames : UpdateDependencies(Stored(n), Stored(m))
  \/ \E u \in Uuids, c \in DepFiles : PutDepFile(u, c)
  \/ Cleanup
  \/ \E s \in Stores, how \in {"missing", "uncreatable"} : LoseDir(s, how)

Spec == Init /\ [][Next]_vars

\* ------------------------------------------------------------------ tags
\* str.lower() on the tags and names of this model
Lower(t) == CASE t = "T" -> "t" [] t = "B" -> "b" [] OTHER -> t

\* tags_add.sql: the tag is connected to the row stored under identifier
sql_tags_add(d, r, identifier, t) == IF identifier \in DOMAIN r THEN d \cup {<<identifier, t>>} ELSE d

\* tags_remove.sql
sql_tags_remove(d, identifier, t) == d \ {<<identifier, t>>}

\* tags_get.sql
sql_tags_get(d, identifier) == {e[2] : e \in {x \in d : x[1] = identifier}}

\* DataLibrary.tag with one tag: the identifier goes to the statement as passed
tag(w, identifier, t) == [w EXCEPT !.db.tags = sql_tags_add(@, w.rows, identifier, Lower(t))]

\* DataLibrary.untag with one tag
untag(w, identifier, t) == [w EXCEPT !.db.tags = sql_tags_remove(@, identifier, Lower(t))]

\* DataLibrary.tags
tags(w, identifier) == sql_tags_get(w.db.tags, identifier)

Tag(identifier, t) ==
  /\ CanCall
  /\ Commit(tag(World, identifier, t))
  /\ last' = [op |-> "tag", identifier |-> identifier, tag |-> t,
              indexed |-> find_uuid(rows, identifier) # None]
  /\ Called
  /\ UNCHANGED disk

Untag(identifier, t) ==
  /\ CanCall
  /\ Commit(untag(World, identifier, t))
  /\ last' = [op |-> "untag", identifier |-> identifier, tag |-> t,
              indexed |-> find_uuid(rows, identifier) # None]
  /\ Called
  /\ UNCHANGED disk

Tags(identifier) ==
  /\ CanCall
  /\ last' = [op |-> "tags", identifier |-> identifier, result |-> tags(World, identifier),
              indexed |-> find_uuid(rows, identifier) # None]
  /\ Called
  /\ UNCHANGED <<disk, rows, db, dirs, vers, thumbs, meta, deps>>

\* the artifacts of the tag scenarios: one has an upper-case name
TagFileNames == {"a", "B"}
TagNames == {"t", "T"}
\* the two forms a caller may pass for the same artifact
Forms(name) == {AbsPath(name), <<".", "data", name>>}

InitTags ==
  /\ root \in Roots
  /\ relative_paths \in BOOLEAN
  /\ disk = {get_directory_of(root) \o <<"data", n>> : n \in TagFileNames}
  /\ rows = NoRows
  /\ db = EmptyDb
  /\ dirs = [s \in Stores |-> "present"]
  /\ vers = NoRows
  /\ thumbs = {}
  /\ meta = {}
  /\ deps = NoRows
  /\ pc = "idle"
  /\ ctx = Idle
  /\ trace = <<>>
  /\ last = [op |-> "init"]
  /\ prevSync = NoSync
  /\ ops = 0
  /\ InitRegistry
  /\ InitSearch

NextTags ==
  \/ \E full \in BOOLEAN : SyncScan(full)
  \/ SyncTags
  \/ SyncVersions
  \/ SyncMetadata
  \/ SyncThumbs
  \/ SyncDependencies
  \/ SyncClean
  \/ SyncCompleted
  \/ \E n \in TagFileNames, t \in TagNames : \E i \in Forms(n) : Tag(i, t)
  \/ \E n \in TagFileNames, t \in TagNames : \E i \in Forms(n) : Untag(i, t)
  \/ \E n \in TagFileNames : \E i \in Forms(n) : Tags(i)

SpecTags == InitTags /\ [][NextTags]_vars

\* ------------------------------------------------- get() and the registry
\* the artifacts of the plugin scenarios and the names get() is asked for
PluginFileNames == {"a", "n.txt", "x.fbx"}
GetNames == PluginFileNames \cup {"s.ma"}
\* dcc.client().get_name()
DccNames == {"standalone", "maya"}

\* os.path.splitext(name)[-1] without the dot
ext_of(name) ==
  CASE name = "n.txt" -> "txt" [] name = "x.fbx" -> "fbx" [] name = "s.ma" -> "ma" [] OTHER -> ""

\* can_represent(identifier, only_extension) of a DataPart class: FileData
\* takes every file (every name with an extension when only_extension), the
\* other classes a file with their extension
class_can_represent(cls, d, identifier, only_extension) ==
  IF cls = FileData
  THEN IF only_extension THEN ext_of(basename(identifier)) # "" ELSE identifier \in d
  ELSE ext_of(basename(identifier)) = cls.ext /\ (only_extension \/ identifier \in d)

\* the loop of DataLibrary.get from position k on: a class that can represent
\* the identifier and does not support the running host ends the loop
RECURSIVE bind_from(_, _, _, _, _, _, _)
bind_from(list, k, d, identifier, only_extension, dcc_name, template) ==
  IF k > Len(list) THEN template
  ELSE IF class_can_represent(list[k], d, identifier, only_extension)
       THEN IF list[k].dccs # {} /\ dcc_name \notin list[k].dccs THEN template
            ELSE bind_from(list, k + 1, d, identifier, only_extension, dcc_name,
                           Append(template, list[k]))
       ELSE bind_from(list, k + 1, d, identifier, only_extension, dcc_name, template)

\* DataLibrary.get: the classes bound into the composite, <<>> standing for None
get_item(list, d, identifier, only_extension, dcc_name) ==
  bind_from(list, 1, d, format_identifier(identifier), only_extension, dcc_name, <<>>)

GetItem(identifier, only_extension, dcc_name) ==
  /\ CanCall
  /\ last' = [op |-> "get", identifier |-> identifier, only_extension |-> only_extension,
              dcc_name |-> dcc_name, raised |-> FALSE,
              bound |-> get_item(data_plugins, disk, identifier, only_extension, dcc_name)]
  /\ Called
  /\ UNCHANGED <<disk, rows, db, dirs, vers, thumbs, meta, deps>>

\* what a registry call leaves alone
RegistryCalled ==
  /\ ops' = ops + 1
  /\ prevSync' = NoSync
  /\ UNCHANGED <<search_data, root, relative_paths, disk, rows, db, dirs, vers, thumbs,
                 meta, deps, pc, ctx, trace>>

\* DataLibrary.register_data_class: the cache is sorted again when the factory
\* took the class
RegisterDataClass(data_class) ==
  LET valid == \A k \in 1..Len(data_factory) : data_factory[k].cls # data_class
      factory == IF valid THEN Append(data_factory, [cls |-> data_class, path |-> "class"])
                 ELSE data_factory
  IN /\ CanCall
     /\ data_factory' = factory
     /\ data_plugins' = IF valid THEN sort_data_plugins(factory) ELSE data_plugins
     /\ UNCHANGED plugin_locations
     /\ last' = [op |-> "register_data_class", raised |-> FALSE]
     /\ RegistryCalled

\* DataLibrary.register_plugin_path
RegisterPluginPath(location) ==
  /\ CanCall
  /\ plugin_locations' = Append(plugin_locations, location)
  /\ data_factory' = register_all(data_factory, PluginsAt(location), location)
  /\ data_plugins' = sort_data_plugins(register_all(data_factory, PluginsAt(location), location))
  /\ last' = [op |-> "register_plugin_path", raised |-> FALSE]
  /\ RegistryCalled

\* list.remove(x): the first occurrence leaves the list
remove_first(list, x) ==
  LET k == CHOOSE i \in 1..Len(list) : list[i] = x /\ \A j \in 1..(i - 1) : list[j] # x
  IN SubSeq(list, 1, k - 1) \o SubSeq(list, k + 1, Len(list))

\* DataLibrary.remove_plugin_path: list.remove raises ValueError for a location
\* that is not in the settings, before the factories are touched
RemovePluginPath(location) ==
  /\ CanCall
  /\ IF \E i \in 1..Len(plugin_locations) : plugin_locations[i] = location
     THEN /\ plugin_locations' = remove_first(plugin_locations, location)
          /\ data_factory' = unregister_path(data_factory, location)
          /\ data_plugins' = sort_data_plugins(unregister_path(data_factory, location))
          /\ last' = [op |-> "remove_plugin_path", raised |-> FALSE]
     ELSE /\ UNCHANGED registry
          /\ last' = [op |-> "remove_plugin_path", raised |-> TRUE]
  /\ RegistryCalled

InitPlugins ==
  /\ root \in Roots
  /\ relative_paths \in BOOLEAN
  /\ disk = {get_directory_of(root) \o <<"data", n>> : n \in PluginFileNames}
  /\ rows = NoRows
  /\ db = EmptyDb
  /\ dirs = [s \in Stores |-> "present"]
  /\ vers = NoRows
  /\ thumbs = {}
  /\ meta = {}
  /\ deps = NoRows
  /\ pc = "idle"
  /\ ctx = Idle
  /\ trace = <<>>
  /\ last = [op |-> "init"]
  /\ prevSync = NoSync
  /\ ops = 0
  /\ InitRegistry
  /\ InitSearch

NextPlugins ==
  \/ \E n \in GetNames, only_extension \in BOOLEAN, dcc_name \in DccNames :
        GetItem(AbsPath(n), only_extension, dcc_name)
  \/ \E c \in {FileData, MayaAsciiData, MaxFileData} : RegisterDataClass(c)
  \/ \E location \in PluginPaths : RegisterPluginPath(location)
  \/ \E location \in PluginPaths : RemovePluginPath(location)

SpecPlugins == InitPlugins /\ [][NextPlugins]_vars

\* ----------------------------------------------------------------- match
\* Values of record fields and filters: a string is the sequence of its
\* characters; None, 0 and False are the non-string values of the model.
Str(s) == [t |-> "str", s |-> s]
NoneValue == [t |-> "none", s |-> <<>>]
ZeroValue == [t |-> "int", s |-> <<"0">>]
FalseValue == [t |-> "bool", s |-> <<"F">>]

\* str.lower(), applied when python.is_string(value)
LowerChar(c) == CASE c = "A" -> "a" [] c = "B" -> "b" [] OTHER -> c
lower(v) == IF v.t = "str" THEN Str([i \in 1..Len(v.s) |-> LowerChar(v.s[i])]) ELSE v

\* mutant: no value counts as falsy
is_falsy_never(v) == FALSE

\* "not item_value": None, the empty string, 0 and False
is_falsy(v) == v.t = "none" \/ (v.t = "str" /\ v.s = <<>>) \/ v = ZeroValue \/ v = FalseValue

\* value in item_value, for strings
contains(value, item_value) ==
  \E i \in 0..(Len(item_value.s) - Len(value.s)) :
     SubSeq(item_value.s, i + 1, i + Len(value.s)) = value.s

startswith(item_value, value) ==
  Len(value.s) <= Len(item_value.s) /\ SubSeq(item_value.s, 1, Len(value.s)) = value.s

endswith(item_value, value) ==
  /\ Len(value.s) <= Len(item_value.s)
  /\ SubSeq(item_value.s, Len(item_value.s) - Len(value.s) + 1, Len(item_value.s)) = value.s

\* mutant: the two values are compared by their text, an integer being equal
\* to the string of its digits
is_equal_coerced(value, item_value) == value.s = item_value.s

\* value == item_value: values of different types are different
is_equal(value, item_value) == value = item_value

\* data.get(key)
data_get(data, key) == IF key \in DOMAIN data THEN data[key] ELSE NoneValue

\* the body of the filter loop of DataLibrary.match: the value of match after
\* the filter <<key, cond, value>> was evaluated, m0 being its value before;
\* a condition that is none of the six assigns nothing
filter_step(data, f, m0) ==
  LET value == lower(f[3])
      item_value == lower(data_get(data, f[1]))
  IN IF is_falsy(item_value) THEN FALSE
     ELSE CASE f[2] = "contains" -> contains(value, item_value)
            [] f[2] = "not_contains" -> ~contains(value, item_value)
            [] f[2] = "is" -> is_equal(value, item_value)
            [] f[2] = "not" -> ~is_equal(value, item_value)
            [] f[2] = "startswith" -> startswith(item_value, value)
            [] f[2] = "endswith" -> endswith(item_value, value)
            [] OTHER -> m0

\* the outcome of a filter with one of the six conditions
filter_match(data, f) == filter_step(data, f, FALSE)

\* mutant: an 'or' block does not stop at its first matching filter
or_break_never(operator, m) == FALSE

\* "if operator == 'or' and match: break"
or_break(operator, m) == operator = "or" /\ m

\* the filter loop of one query block from filter k on
RECURSIVE run_filters(_, _, _, _)
run_filters(data, query, k, m0) ==
  IF k > Len(query.filters) THEN m0
  ELSE LET m == filter_step(data, query.filters[k], m0)
       IN IF or_break(query.operator, m) THEN m
          ELSE IF query.operator = "and" /\ ~m THEN m
          ELSE run_filters(data, query, k + 1, m)

\* DataLibrary.match: the blocks without filters are skipped, the results of
\* the other blocks are collected and all() is taken
match(data, queries) ==
  \A i \in 1..Len(queries) :
     queries[i].filters # <<>> => run_filters(data, queries[i], 1, FALSE)

\* the most filters in a block and the most blocks in a query list
MaxFilters == 2
MaxBlocks == 2

SeqsUpTo(S, n) == UNION {[1..k -> S] : k \in 0..n}

\* records: the field 'name' is missing, falsy or a string
Records ==
  {[k \in {} |-> NoneValue]} \cup
  {[k \in {"name"} |-> v] : v \in {NoneValue, ZeroValue, FalseValue, Str(<<>>),
                                    Str(<<"a">>), Str(<<"a", "B">>)}}
Conditions == {"contains", "not_contains", "is", "not", "startswith", "endswith"}
\* the filters of the query lists
QueryFilters == {<<"name", "is", Str(<<"a">>)>>, <<"name", "contains", Str(<<"B">>)>>,
                 <<"name", "not", Str(<<"a">>)>>}
QueryBlocks == {[operator |-> o, filters |-> fs] :
                  o \in {"and", "or"}, fs \in SeqsUpTo(QueryFilters, MaxFilters)}
QueryRecords == {[k \in {"name"} |-> v] : v \in {NoneValue, Str(<<"a">>), Str(<<"a", "B">>)}}

\* match(data, queries) on a query list
Match(data, queries) ==
  /\ last' = [op |-> "match", data |-> data, queries |-> queries,
              result |-> match(data, queries)]
  /\ UNCHANGED <<search_data, registry, root, relative_paths, disk, rows, db, dirs, vers, thumbs, meta,
                 deps, pc, ctx, trace, prevSync, ops>>

\* match(data, queries) with one block of one filter
MatchFilter(data, operator, f) ==
  /\ last' = [op |-> "match_filter", data |-> data, filter |-> f,
              result |-> match(data, <<[operator |-> operator, filters |-> <<f>>]>>)]
  /\ UNCHANGED <<search_data, registry, root, relative_paths, disk, rows, db, dirs, vers, thumbs, meta,
                 deps, pc, ctx, trace, prevSync, ops>>

\* the values of the field 'index' and of the filters on it: integers,
\* the strings of their digits, and strings that differ in case only
IndexValues == {[t |-> "int", s |-> <<"3">>], [t |-> "int", s |-> <<"4">>],
                Str(<<"3">>), Str(<<"a">>), Str(<<"A">>)}

\* match(data, queries) with the one filter ('index', 'is', value)
MatchIs(data, operator, value) ==
  /\ last' = [op |-> "match_is", data |-> data, value |-> value,
              result |-> match(data, <<[operator |-> operator,
                                        filters |-> <<<<"index", "is", value>>>>]>>)]
  /\ UNCHANGED <<search_data, registry, root, relative_paths, disk, rows, db, dirs, vers, thumbs, meta,
                 deps, pc, ctx, trace, prevSync, ops>>

\* filters on the field 'name', one with a condition match() does not know
UnknownFilters == {<<"name", "is", Str(<<"a">>)>>, <<"name", "contains", Str(<<"B">>)>>,
                   <<"name", "matches", Str(<<"a">>)>>}

\* match(data, queries) with one block of two filters
MatchUnknown(data, operator, f, g) ==
  /\ last' = [op |-> "match_unknown", data |-> data, operator |-> operator,
              filters |-> <<f, g>>,
              result |-> match(data, <<[operator |-> operator, filters |-> <<f, g>>]>>)]
  /\ UNCHANGED <<search_data, registry, root, relative_paths, disk, rows, db, dirs, vers, thumbs, meta,
                 deps, pc, ctx, trace, prevSync, ops>>

\* one call per behaviour
NextMatch ==
  \/ /\ last.op = "init"
     /\ \E data \in QueryRecords, queries \in SeqsUpTo(QueryBlocks, MaxBlocks) :
          Match(data, queries)
  \/ /\ last.op = "init"
     /\ \E data \in Records, operator \in {"and", "or"}, cond \in Conditions,
          value \in {Str(<<"a">>), Str(<<"B">>)} :
          MatchFilter(data, operator, <<"name", cond, value>>)
  \/ /\ last.op = "init"
     /\ \E x \in IndexValues, operator \in {"and", "or"}, value \in IndexValues :
          MatchIs([k \in {"index"} |-> x], operator, value)
  \/ /\ last.op = "init"
     /\ \E data \in QueryRecords, operator \in {"and", "or"}, f \in UnknownFilters,
          g \in UnknownFilters : MatchUnknown(data, operator, f, g)

\* match is a static method: one library state is enough
InitMatch == Init /\ relative_paths /\ root = "C:"

SpecMatch == InitMatch /\ [][NextMatch]_vars

\* ------------------------------------------------- sorted and group_items
\* field.split(':') on the sort and group keys of this model
split(field) ==
  CASE field = "index:asc" -> <<"index", "asc">>
    [] field = "index:dsc" -> <<"index", "dsc">>
    [] field = "name:asc" -> <<"name", "asc">>
    [] field = "name:dsc" -> <<"name", "dsc">>
    [] OTHER -> <<field>>

\* the field a key names, and its direction: reverse = tokens[1] != 'asc'
key_field(field) == split(field)[1]
key_reverse(field) == Len(split(field)) > 1 /\ split(field)[2] # "asc"

\* Python's sorted(items, key, reverse): stable in both directions, an item
\* goes behind every item already placed that does not come after it
RECURSIVE insert_sorted(_, _, _, _)
insert_sorted(placed, item, field, reverse) ==
  IF placed = <<>> THEN <<item>>
  ELSE LET h == Head(placed)
           stays == IF reverse THEN h[field] >= item[field] ELSE h[field] <= item[field]
       IN IF stays THEN <<h>> \o insert_sorted(Tail(placed), item, field, reverse)
          ELSE <<item>> \o placed

RECURSIVE py_sorted(_, _, _, _)
py_sorted(items, k, field, reverse) ==
  IF k = 0 THEN <<>>
  ELSE insert_sorted(py_sorted(items, k - 1, field, reverse), items[k], field, reverse)

\* mutant: the keys are taken from left to right
pass_order_forward(sort_by) == sort_by

\* reversed(sort_by): the rightmost key is sorted first
pass_order(sort_by) == [k \in 1..Len(sort_by) |-> sort_by[Len(sort_by) + 1 - k]]

\* the passes of DataLibrary.sorted from pass k on
RECURSIVE sort_passes(_, _, _)
sort_passes(items, passes, k) ==
  IF k > Len(passes) THEN items
  ELSE sort_passes(py_sorted(items, Len(items), key_field(passes[k]), key_reverse(passes[k])),
                   passes, k + 1)

\* DataLibrary.sorted
sorted(items, sort_by) == sort_passes(items, pass_order(sort_by), 1)

\* the most items in a list and the most keys in sort_by
MaxItems == 3
MaxKeys == 2

\* item data: name and index stand for their rank in the order of their
\* values, id is the place of the item in the input list
SortValues == {1, 2}
SortKeys == {"index", "index:asc", "index:dsc", "name", "name:dsc"}
ItemLists ==
  UNION {{[k \in 1..n |-> [id |-> k, name |-> f[k][1], index |-> f[k][2]]] :
            f \in [1..n -> SortValues \X SortValues]} : n \in 0..MaxItems}

Sorted(items, sort_by) ==
  /\ last' = [op |-> "sorted", items |-> items, sort_by |-> sort_by,
              result |-> sorted(items, sort_by)]
  /\ UNCHANGED <<search_data, registry, root, relative_paths, disk, rows, db, dirs, vers, thumbs, meta,
                 deps, pc, ctx, trace, prevSync, ops>>

\* sorted(results_.keys(), reverse=reverse)
RECURSIVE sorted_keys(_, _)
sorted_keys(group_keys, reverse) ==
  IF group_keys = {} THEN <<>>
  ELSE LET first == IF reverse THEN CHOOSE x \in group_keys : \A y \in group_keys : y <= x
                    ELSE CHOOSE x \in group_keys : \A y \in group_keys : x <= y
       IN <<first>> \o sorted_keys(group_keys \ {first}, reverse)

\* the two skips of group_items: the name starts with '.', or the directory
\* is not empty and its base name starts with '.' without being '.'
starts_with_dot(chars) == Len(chars) > 0 /\ chars[1] = "."
skipped_item(item) ==
  \/ starts_with_dot(item.name)
  \/ /\ item.directory # <<>>
     /\ LET base_dir == item.directory[Len(item.directory)]
        IN base_dir # <<".">> /\ starts_with_dot(base_dir)

\* mutant: the groups are always in ascending order
group_reverse_never(field) == FALSE

\* reverse = tokens[1] != 'asc' of group_items
group_reverse(field) == key_reverse(field)

\* DataLibrary.group_items: the ordered dictionary is the sequence of its
\* [key, items] entries
group_items(items, group_by) ==
  IF group_by = <<>> THEN <<[key |-> None, items |-> items]>>
  ELSE LET field == key_field(group_by[1])
           kept == SelectSeq(items, LAMBDA item : ~skipped_item(item) /\ item[field] # 0)
           groups == sorted_keys({kept[i][field] : i \in 1..Len(kept)}, group_reverse(group_by[1]))
       IN [g \in 1..Len(groups) |->
             [key |-> groups[g],
              items |-> SelectSeq(kept, LAMBDA item : item[field] = groups[g])]]

\* items of the groupings: the name and the components of the directory are
\* sequences of characters, index is 0 (falsy) or a positive number; Shown
\* is the name and directory of an item that is not skipped
Shown == <<<<"a">>, <<<<".">>, <<"d">>>>>>
GroupKinds == {<<Shown, 0>>, <<Shown, 1>>, <<Shown, 2>>,
               <<<<<<".", "a">>, <<<<".">>, <<"d">>>>>>, 1>>,
               <<<<<<"a">>, <<<<".">>, <<".", "d">>>>>>, 2>>,
               <<<<<<"a">>, <<<<".">>>>>>, 1>>, <<<<<<"a">>, <<>>>>, 2>>}
GroupLists ==
  UNION {{[k \in 1..n |-> [id |-> k, name |-> f[k][1][1], directory |-> f[k][1][2],
                           index |-> f[k][2]]] :
            f \in [1..n -> GroupKinds]} : n \in 0..MaxItems}
GroupFields == {<<>>, <<"index">>, <<"index:dsc">>, <<"index:asc", "name">>, <<"index:dsc", "name">>}

GroupItems(items, group_by) ==
  /\ last' = [op |-> "group_items", items |-> items, group_by |-> group_by,
              result |-> group_items(items, group_by)]
  /\ UNCHANGED <<search_data, registry, root, relative_paths, disk, rows, db, dirs, vers, thumbs, meta,
                 deps, pc, ctx, trace, prevSync, ops>>

\* one call per behaviour
NextSort ==
  \/ /\ last.op = "init"
     /\ \E items \in ItemLists, sort_by \in SeqsUpTo(SortKeys, MaxKeys) : Sorted(items, sort_by)
  \/ /\ last.op = "init"
     /\ \E items \in GroupLists, group_by \in GroupFields : GroupItems(items, group_by)

SpecSort == InitMatch /\ [][NextSort]_vars

\* --------------------------------------------------------------- _execute
\* A command is the list of the statements of its .sql file; failing is the
\* set of statements the cursor refuses with an sqlite3.Error. x is the call
\* so far: the statements executed, the log, the rows the cursor holds and
\* whether an exception left the call.
\* mutant: the loop goes on with the next statement after an error
on_error_continue(x, statements, k) == [x EXCEPT !.k = k + 1, !.rows = <<>>]

\* "except sqlite3.Error: ... return list()"
on_error(x, statements, k) == [x EXCEPT !.k = Len(statements) + 1, !.rows = <<>>]

RECURSIVE execute_from(_, _, _)
execute_from(x, statements, failing) ==
  IF x.k > Len(statements) THEN x
  ELSE IF statements[x.k] \in failing
  THEN execute_from(on_error([x EXCEPT !.log = Append(@, "error")], statements, x.k),
                    statements, failing)
  ELSE execute_from([x EXCEPT !.executed = Append(@, statements[x.k]),
                              !.rows = <<statements[x.k]>>, !.k = @ + 1],
                    statements, failing)

\* DataLibrary._execute(context, command)
execute(statements, failing) ==
  execute_from([executed |-> <<>>, log |-> <<>>, rows |-> <<>>, raised |-> FALSE, k |-> 1],
               statements, failing)

\* what the callers make of connection.results: get_thumb, find_uuid and the
\* like return the first row or None, tags() and find() the list of the rows
first_result(results) == IF results = <<>> THEN None ELSE results[1]
all_results(results) == results

\* the most statements in a command
MaxStatements == 3
StatementNames == {"s1", "s2", "s3"}

Execute(statements, failing) ==
  /\ last' = [op |-> "_execute", statements |-> statements, failing |-> failing,
              call |-> execute(statements, failing)]
  /\ UNCHANGED <<search_data, registry, root, relative_paths, disk, rows, db, dirs, vers, thumbs, meta,
                 deps, pc, ctx, trace, prevSync, ops>>

\* a query of the library: one command, then the use of connection.results
Query(kind, statements, failing) ==
  /\ last' = [op |-> "query", kind |-> kind, statements |-> statements, failing |-> failing,
              raised |-> execute(statements, failing).raised,
              result |-> IF kind = "first" THEN <<first_result(execute(statements, failing).rows)>>
                         ELSE all_results(execute(statements, failing).rows)]
  /\ UNCHANGED <<search_data, registry, root, relative_paths, disk, rows, db, dirs, vers, thumbs, meta,
                 deps, pc, ctx, trace, prevSync, ops>>

\* one call per behaviour
NextExecute ==
  \/ /\ last.op = "init"
     /\ \E statements \in SeqsUpTo(StatementNames, MaxStatements),
          failing \in SUBSET StatementNames : Execute(statements, failing)
  \/ /\ last.op = "init"
     /\ \E kind \in {"first", "all"}, statements \in SeqsUpTo(StatementNames, MaxStatements),
          failing \in SUBSET StatementNames : Query(kind, statements, failing)

SpecExecute == InitMatch /\ [][NextExecute]_vars

\* ------------------------------------------- identifiers and find_data
\* find_fields.sql: the rows whose identifier is one of idents
sql_find_fields(r, idents) == {i \in DOMAIN r : i \in idents}

\* DataLibrary.find_data(identifier), None standing for all identifiers
find_data(r, idents0) ==
  LET idents == IF relative_paths THEN {get_relative_identifier(i) : i \in idents0}
                ELSE idents0
  IN [k \in sql_find_fields(r, idents) |->
        [uuid |-> r[k].uuid, name |-> r[k].name, directory |-> r[k].directory,
         identifier |-> k, path |-> format_identifier(k)]]

\* the signals find() emits: searchStarted, the emission of searchFinished
\* being commented out; find_data() and find_items() emit them through
\* find(None)
find_signals == <<"searchStarted">>

\* absolute paths at and below the library directory
AbsInputs ==
  {get_directory, ScanLocation, get_directory \o <<"a">>}
    \cup {AbsPath(n) : n \in FileNames \cup NewNames}

\* get_identifier(p), and format_identifier applied to its result
GetIdentifier(p) ==
  /\ CanCall
  /\ last' = [op |-> "get_identifier", arg |-> p, result |-> get_identifier(p),
              back |-> format_identifier(get_identifier(p))]
  /\ Called
  /\ UNCHANGED <<disk, rows, db, dirs, vers, thumbs, meta, deps>>

\* format_identifier(r) of a stored identifier, and get_identifier applied to its result
FormatIdentifier(r) ==
  /\ CanCall
  /\ r \in DOMAIN rows
  /\ last' = [op |-> "format_identifier", arg |-> r, result |-> format_identifier(r),
              back |-> get_identifier(format_identifier(r))]
  /\ Called
  /\ UNCHANGED <<disk, rows, db, dirs, vers, thumbs, meta, deps>>

FindData ==
  /\ CanCall
  /\ last' = [op |-> "find_data", result |-> find_data(rows, find_all(rows)),
              synced |-> trace # <<>>, signals |-> find_signals]
  /\ Called
  /\ UNCHANGED <<disk, rows, db, dirs, vers, thumbs, meta, deps>>

\* DataLibrary.find_items: the item get() returns is appended for every
\* identifier whose data matches, whatever get() returned
find_items(r, queries) ==
  LET items_data == find_data(r, find_all(r))
  IN {[identifier |-> k, item |-> IF get(k) THEN "DataPart" ELSE None] :
        k \in {i \in DOMAIN items_data : match(items_data[i], queries)}}

\* DataLibrary.get_all_items: an identifier get() has no item for is passed over
get_all_items(r) ==
  {[identifier |-> k, item |-> "DataPart"] : k \in {i \in find_all(r) : get(i)}}

\* find_items(queries) with no query and no global query
FindItems ==
  /\ CanCall
  /\ last' = [op |-> "find_items", result |-> find_items(rows, <<>>),
              signals |-> find_signals]
  /\ Called
  /\ UNCHANGED <<disk, rows, db, dirs, vers, thumbs, meta, deps>>

GetAllItems ==
  /\ CanCall
  /\ last' = [op |-> "get_all_items", result |-> get_all_items(rows),
              signals |-> find_signals]
  /\ Called
  /\ UNCHANGED <<disk, rows, db, dirs, vers, thumbs, meta, deps>>

StoredForms == {Stored(n) : n \in FileNames \cup NewNames} \cup
               {<<".", "data", n>> : n \in FileNames}

NextIdentifier ==
  \/ \E n \in FileNames : Add(<<".", "data", n>>)
  \/ \E full \in BOOLEAN : SyncScan(full)
  \/ SyncTags
  \/ SyncVersions
  \/ SyncMetadata
  \/ SyncThumbs
  \/ SyncDependencies
  \/ SyncClean
  \/ SyncCompleted
  \/ \E p \in AbsInputs : GetIdentifier(p)
  \/ \E r \in StoredForms : FormatIdentifier(r)
  \/ FindData
  \/ \E n \in FileNames : DiskDelete(n)
  \/ FindItems
  \/ GetAllItems

SpecIdentifier == Init /\ [][NextIdentifier]_vars

\* ---------------------------------------------- delete_with_dependencies
\* A call works on s = [w, disk, deleted, diverged]: the world, the files on
\* disk, the items delete() was called on, in order, and whether the
\* recursion came back to an item with the library and the disk as they were
\* when it was entered, after which it repeats itself until the interpreter
\* gives up (RecursionError).
\* FileData.delete
delete(s, identifier) ==
  {[s EXCEPT !.disk = @ \ {format_identifier(identifier)},
             !.w = w2,
             !.deleted = Append(@, identifier)] : w2 \in remove(s.w, {identifier}, TRUE)}

\* dependencies_get.sql, as get_dependencies(identifier, as_uuid=False) returns it
get_dependencies(w, identifier) ==
  {e[2] : e \in {x \in w.db.deps : x[1] = get_identifier(identifier) /\ x[2] \in DOMAIN w.rows}}

\* FileData.delete_with_dependencies(recursive=True), and its loop over the
\* dependencies read before the loop
RECURSIVE delete_with_dependencies(_, _, _)
RECURSIVE delete_each(_, _, _)
delete_each(S, todo, stack) ==
  IF todo = {} THEN S
  ELSE LET dependency_identifier == CHOOSE i \in todo : TRUE
           step(s) ==
             IF s.diverged \/ s.w.raised THEN {s}
             ELSE IF format_identifier(dependency_identifier) \in s.disk
             THEN delete_with_dependencies(s, dependency_identifier, stack)
             ELSE {[s EXCEPT !.w = w2] : w2 \in remove(s.w, {dependency_identifier}, TRUE)}
       IN delete_each(UNION {step(s) : s \in S}, todo \ {dependency_identifier}, stack)

delete_with_dependencies(s, identifier, stack) ==
  LET entry == <<identifier, s.w.rows, s.w.db.deps, s.disk>>
  IN IF entry \in stack THEN {[s EXCEPT !.diverged = TRUE]}
     ELSE UNION {IF t.diverged \/ t.w.raised THEN {t} ELSE delete(t, identifier) :
                   t \in delete_each({s}, get_dependencies(s.w, format_identifier(identifier)),
                                     stack \cup {entry})}

DeleteWithDependencies(identifier) ==
  /\ CanCall
  /\ get(identifier)
  /\ \E s \in delete_with_dependencies(
                 [w |-> World, disk |-> disk, deleted |-> <<>>, diverged |-> FALSE],
                 identifier, {}) :
       /\ Commit(s.w)
       /\ disk' = s.disk
       /\ last' = [op |-> "delete_with_dependencies", identifier |-> identifier,
                   dependencies |-> get_dependencies(World, identifier),
                   deleted |-> s.deleted, diverged |-> s.diverged, raised |-> s.w.raised]
  /\ Called

NextDelete ==
  \/ \E full \in BOOLEAN : SyncScan(full)
  \/ SyncTags
  \/ SyncVersions
  \/ SyncMetadata
  \/ SyncThumbs
  \/ SyncDependencies
  \/ SyncClean
  \/ SyncCompleted
  \/ \E n \in DataNames, m \in DataNames : UpdateDependencies(Stored(n), Stored(m))
  \/ \E n \in DataNames : DeleteWithDependencies(Stored(n))

SpecDelete == Init /\ [][NextDelete]_vars

\* ---------------------------------------------------------------- search
\* what a search call leaves alone
SearchCalled ==
  /\ ops' = ops + 1
  /\ prevSync' = NoSync
  /\ UNCHANGED <<registry, root, relative_paths, disk, rows, db, dirs, vers, thumbs, meta,
                 deps, pc, ctx, trace>>

\* DataLibrary.find(None)
Find ==
  /\ CanCall
  /\ last' = [op |-> "find", result |-> find_all(rows), signals |-> find_signals]
  /\ Called
  /\ UNCHANGED <<disk, rows, db, dirs, vers, thumbs, meta, deps>>

\* DataLibrary.search, with no query and the default group_by() of the
\* settings, the empty list
search(sd, r) ==
  IF ~sd.search_enabled THEN sd
  ELSE [sd EXCEPT !.results = find_items(r, <<>>),
                  !.grouped_results = group_items(find_items(r, <<>>), <<>>)]

Search ==
  /\ CanCall
  /\ search_data' = search(search_data, rows)
  /\ last' = [op |-> "search", enabled |-> search_data.search_enabled, before |-> search_data,
              signals |-> IF search_data.search_enabled
                          THEN <<"searchStarted">> \o find_signals \o <<"searchFinished">>
                          ELSE <<>>]
  /\ SearchCalled

\* DataLibrary.set_search_enabled
SetSearchEnabled(flag) ==
  /\ CanCall
  /\ search_data' = [search_data EXCEPT !.search_enabled = flag]
  /\ last' = [op |-> "set_search_enabled", signals |-> <<>>]
  /\ SearchCalled

\* DataLibrary.clear: the list is assigned to the attribute _resulst
clear(sd) == [sd EXCEPT !.resulst = {}, !.grouped_results = <<>>]

Clear ==
  /\ CanCall
  /\ search_data' = clear(search_data)
  /\ last' = [op |-> "clear", before |-> search_data, signals |-> <<"dataChanged">>]
  /\ SearchCalled

NextSearch ==
  \/ \E full \in BOOLEAN : SyncScan(full)
  \/ SyncTags
  \/ SyncVersions
  \/ SyncMetadata
  \/ SyncThumbs
  \/ SyncDependencies
  \/ SyncClean
  \/ SyncCompleted
  \/ Find
  \/ FindData
  \/ FindItems
  \/ Search
  \/ \E flag \in BOOLEAN : SetSearchEnabled(flag)
  \/ Clear

SpecSearch == Init /\ [][NextSearch]_vars

TypeOK == pc \in {"idle", "tags", "versions", "metadata", "thumbs", "dependencies",
                  "clean", "completed"}

\* ----------------------------------------------------------------- claims
\* nothing in the four side-stores is keyed by uuid
NoEntry(uuid) ==
  /\ uuid \notin DOMAIN vers
  /\ ~\E f \in thumbs : stem(f) = uuid
  /\ ~\E f \in meta : stem(f) = uuid
  /\ uuid \notin DOMAIN deps

IsPrefix(p, q) == Len(p) <= Len(q) /\ SubSeq(q, 1, Len(p)) = p

FullOrder ==
  <<"scan", "tags", "versions", "metadata", "thumbs", "dependencies", "clean", "completed">>

\* the steps of the current sync() call that ran, without the mark of an exception
Steps == IF Len(trace) > 0 /\ trace[Len(trace)] = "raised"
         THEN SubSeq(trace, 1, Len(trace) - 1) ELSE trace

SyncEnded == last.op = "sync" /\ last.finished

\* C1: after remove(identifier, recursive=True) of one indexed identifier, the
\* identifier and every identifier its dependency files reach are gone from
\* find(None), and no side-store holds an entry keyed by any of their uuids.
C1_CascadeDelete ==
  (last.op = "remove" /\ last.recursive /\ ~last.raised /\ Cardinality(last.uuids) = 1) =>
    /\ \A i \in last.reached_identifiers : i \notin find_all(rows)
    /\ \A u \in last.reached : NoEntry(u)

\* C2: after rename() or move() of an indexed identifier, nothing is keyed by the
\* old uuid any more and every entry the old uuid had is there under the new
\* uuid, metadata files with their version component.
C2_RenameMigratesAll ==
  (last.op \in {"rename", "move"} /\ last.uuid # None /\ ~last.raised) =>
    LET old == Keyed(World, last.uuid)
        new == Keyed(World, last.new_uuid)
    IN /\ old = NothingKeyed
       /\ new.version = last.before.version
       /\ new.thumbs = {[f EXCEPT ![1] = last.new_uuid] : f \in last.before.thumbs}
       /\ new.meta = {[f EXCEPT ![1] = last.new_uuid] : f \in last.before.meta}
       /\ new.dependency = last.before.dependency
       /\ new.referrers = last.before.referrers

\* C3: once rename() or move() has updated the primary row, the four migrations
\* are all attempted and no failure of one of them reaches the caller.
C3_AllMigrationsAttempted ==
  (last.op \in {"rename", "move"} /\ last.uuid # None) =>
    /\ ~last.raised
    /\ {"rename_metadata", "rename_thumb", "rename_version", "rename_dependency"}
          \subseteq Range(last.log)

\* C4: a sync() that follows a completed sync() on an unchanged scan location
\* leaves the primary table as the first sync() left it, and the uuid of every
\* scanned row is the hash of its stored identifier.
C4_SyncIdempotent ==
  (SyncEnded /\ ~last.raised /\ ctx.twice) =>
    /\ rows = ctx.first
    /\ \A i \in Range(ctx.scanned) \cap DOMAIN rows : rows[i].uuid = shortuuid(i)

C4_Witness == SyncEnded /\ ~last.raised /\ ctx.twice /\ ctx.scanned # <<>>

\* C5: in one sync(full=True) the rows of all scanned identifiers are committed
\* before any side pass, the passes run once each in the order tags, versions,
\* metadata, thumbs, dependencies, the cleanup runs after the last pass and
\* syncCompleted is emitted after the cleanup.
C5_SyncOrder ==
  (last.op = "sync" /\ ctx.full) =>
    /\ IsPrefix(Steps, FullOrder)
    /\ (pc \notin {"idle", "completed"}) => Range(ctx.scanned) \subseteq DOMAIN rows
    /\ ("syncCompleted" \in Range(ctx.log)) => Steps = FullOrder
    /\ (last.finished /\ ~last.raised) => Steps = FullOrder

C5_Witness == SyncEnded /\ ~last.raised /\ ctx.full /\ ctx.scanned # <<>>

\* C6: the cleanup of sync() removes an indexed identifier exactly when a
\* scanner reports NOT_VALID for its formatted identifier or the formatted
\* identifier was blacklisted by this sync; VALID and UNKNOWN keep it.
C6_CleanIff ==
  (last.op = "sync" /\ ctx.cleaned) =>
    \A i \in ctx.indexed :
      (i \notin DOMAIN rows) <=>
        (check(disk, format_identifier(i)) = NOT_VALID
           \/ format_identifier(i) \in Range(ctx.blacklisted))

C6_Witness ==
  /\ last.op = "sync" /\ ctx.cleaned
  /\ \E i \in ctx.indexed : i \notin DOMAIN rows
  /\ \E i \in ctx.indexed : i \in DOMAIN rows

\* C7: sync() writes no row for a scanned identifier with a path component in
\* the blacklist: it is in the blacklisted list only, not emitted as scanned
\* and not in the returned list.
C7_BlacklistNeverWritten ==
  (last.op = "sync") =>
    \A p \in disk :
      (\E k \in 1..Len(p) : p[k] \in {".git", ".gitattributes"}) =>
        /\ p \in Range(ctx.blacklisted)
        /\ stored_form(p) \notin Range(ctx.scanned)
        /\ stored_form(p) \notin Range(ctx.emitted)
        /\ stored_form(p) \in DOMAIN rows =>
              /\ stored_form(p) \in DOMAIN ctx.before
              /\ rows[stored_form(p)] = ctx.before[stored_form(p)]

C7_Witness ==
  /\ last.op = "sync" /\ ctx.blacklisted # <<>> /\ ctx.scanned # <<>>
  /\ \E p \in Range(ctx.blacklisted) : stored_form(p) \notin DOMAIN rows

\* C8: a sync(full=True) that finds a side-store directory missing skips that
\* pass with a warning and still runs every later pass, the cleanup and the
\* syncCompleted emission.
C8_PassesResilient ==
  (SyncEnded /\ ctx.full /\ ctx.missing # {}) =>
    /\ ~last.raised
    /\ Steps = FullOrder
    /\ \A s \in ctx.missing :
         (CASE s = "versions" -> "warning:versions"
            [] s = "thumbs" -> "warning:thumbs"
            [] s = "metadata" -> "warning:metadata"
            [] OTHER -> "warning:dependencies") \in Range(ctx.log)

\* C9: remove() of a list of indexed identifiers deletes their rows and leaves
\* no version folder, thumbnail, metadata file or dependency file of any of
\* the removed uuids.
C9_RemoveCascades ==
  (last.op = "remove" /\ ~last.raised) =>
    /\ \A i \in last.identifiers : i \notin DOMAIN rows
    /\ \A u \in last.uuids : NoEntry(u)

\* C10: remove(identifier, recursive=True) terminates on every set of dependency
\* files, cyclic ones included: delete_dependencies is entered at most once per
\* dependency file, plus the call that finds nothing.
C10_DeleteDependenciesTerminates ==
  (last.op = "remove") => (~last.overflow /\ last.calls <= last.files + 1)

C10_Witness ==
  /\ last.op = "remove" /\ last.recursive /\ last.cyclic /\ last.calls >= 2
  /\ ~last.raised

\* C11: after cleanup() on a library whose side-store paths can be created and
\* whose dependency files can be read, no version folder, thumbnail, metadata
\* file or dependency file has a uuid that is absent from the primary table,
\* and no dependency file lists such a uuid.
C11_CleanupSweeps ==
  (last.op = "cleanup" /\ last.readable) =>
    LET all_uuids == get_all_uuids(rows)
    IN /\ DOMAIN vers \subseteq all_uuids
       /\ \A f \in thumbs \cup meta : stem(f) \in all_uuids
       /\ DOMAIN deps \subseteq all_uuids
       /\ \A u \in DOMAIN deps : stale_keys(deps[u], all_uuids) = {}

C13_SameRowEitherForm ==
  LET row == get_identifier(AbsPath(basename(last.identifier)))
  IN /\ (relative_paths /\ last.op = "tag" /\ row \in DOMAIN rows) =>
          <<row, Lower(last.tag)>> \in db.tags
     /\ (relative_paths /\ last.op = "tags" /\ row \in DOMAIN rows) =>
          last.result = sql_tags_get(db.tags, row)

\* C14: get(identifier, only_extension) binds exactly the registered classes
\* that can represent the identifier and whose supported_dccs() is empty or
\* holds the running host, in descending PRIORITY order.
C14_GetBindsAllMatching ==
  (last.op = "get") =>
    /\ Range(last.bound) =
         {c \in Range(plugins(data_factory)) :
            /\ class_can_represent(c, disk, format_identifier(last.identifier),
                                   last.only_extension)
            /\ (c.dccs = {} \/ last.dcc_name \in c.dccs)}
    /\ \A i, j \in 1..Len(last.bound) :
         i < j => last.bound[i].PRIORITY >= last.bound[j].PRIORITY

\* C16: after construction and after every register_data_class,
\* register_plugin_path and remove_plugin_path, the cached list holds exactly
\* the plugins of the data factory, in non-increasing PRIORITY order.
C16_CacheSorted ==
  /\ Len(data_plugins) = Len(data_factory)
  /\ Range(data_plugins) = Range(plugins(data_factory))
  /\ \A i, j \in 1..Len(data_plugins) :
       i < j => data_plugins[i].PRIORITY >= data_plugins[j].PRIORITY

C16_Witness ==
  /\ last.op \in {"register_data_class", "register_plugin_path", "remove_plugin_path"}
  /\ ~last.raised
  /\ data_factory # register_all(<<>>, PluginsAt("data"), "data")
  /\ \E i, j \in 1..Len(data_factory) :
       i < j /\ data_factory[i].cls.PRIORITY < data_factory[j].cls.PRIORITY

\* C19: match(data, queries) is true exactly when every block with filters is
\* true, an 'and' block being true iff all its filters match and an 'or' block
\* iff one of its filters matches; blocks without filters are ignored and the
\* empty query list matches.
C19_MatchBlocks ==
  (last.op = "match") =>
    last.result =
      \A i \in 1..Len(last.queries) :
        LET q == last.queries[i]
        IN q.filters # <<>> =>
             IF q.operator = "or"
             THEN \E k \in 1..Len(q.filters) : filter_match(last.data, q.filters[k])
             ELSE \A k \in 1..Len(q.filters) : filter_match(last.data, q.filters[k])

C19_Witness ==
  /\ last.op = "match" /\ Len(last.queries) = 2 /\ ~last.result
  /\ last.queries[1].operator = "or" /\ Len(last.queries[1].filters) = 2
  /\ filter_match(last.data, last.queries[1].filters[1])
  /\ ~filter_match(last.data, last.queries[1].filters[2])
  /\ last.queries[2].operator = "and" /\ Len(last.queries[2].filters) = 2

\* C20: a filter on a field whose value is missing, None, empty, 0 or False
\* never matches, whatever the condition, the negative ones included.
C20_FalsyNeverMatches ==
  (last.op = "match_filter") =>
    LET item_value == data_get(last.data, last.filter[1])
    IN item_value \in {NoneValue, ZeroValue, FalseValue, Str(<<>>)} => ~last.result

C20_Witness ==
  /\ last.op = "match_filter" /\ last.filter[2] \in {"not", "not_contains"}
  /\ data_get(last.data, last.filter[1]) \in {NoneValue, ZeroValue, FalseValue, Str(<<>>)}
  /\ ~last.result

\* C15: an identifier no registered class can represent is passed over by the
\* operations that iterate the index: no entry of the list find_items returns
\* is None.
C15_NoneSkipped ==
  (last.op \in {"find_items", "get_all_items"}) => \A e \in last.result : e.item # None

\* C17: every stored tag, and every tag tags() returns, is lower-case, the
\* mandatory tags sync() stores included.
C17_TagsLowerCase ==
  /\ \A e \in db.tags : e[2] = Lower(e[2])
  /\ (last.op = "tags") => \A t \in last.result : t = Lower(t)

\* C18: there is at most one thumbnail file per uuid, and the thumbnail the
\* database records for a uuid that has a file is that file.
C18_OneThumbnail ==
  /\ \A f \in thumbs : \A g \in thumbs : stem(f) = stem(g) => f = g
  /\ \A f \in thumbs : stem(f) \in DOMAIN db.thumbs => db.thumbs[stem(f)] = f

RECURSIVE Before(_, _, _, _)
Before(a, b, sort_by, k) ==
  IF k > Len(sort_by) THEN a.id < b.id
  ELSE LET f == key_field(sort_by[k])
       IN IF a[f] = b[f] THEN Before(a, b, sort_by, k + 1)
          ELSE IF key_reverse(sort_by[k]) THEN a[f] > b[f] ELSE a[f] < b[f]

\* C22: sorted(items, sort_by) is a permutation of items in the lexicographic
\* order of the keys of sort_by, the leftmost dominant, each ascending unless
\* its suffix is ':dsc', and items equal on every key keep their input order.
C22_SortedLexicographic ==
  (last.op = "sorted") =>
    /\ Len(last.result) = Len(last.items)
    /\ {last.result[i] : i \in 1..Len(last.result)} = {last.items[i] : i \in 1..Len(last.items)}
    /\ \A i \in 1..Len(last.result) : \A j \in 1..Len(last.result) :
         i < j => Before(last.result[i], last.result[j], last.sort_by, 1)

C22_Witness ==
  /\ last.op = "sorted" /\ last.sort_by = <<"index:dsc", "name">>
  /\ Len(last.items) = 3 /\ last.result # last.items
  /\ last.items[1].index = last.items[3].index /\ last.items[1].name = last.items[3].name
  /\ last.items[2].index > last.items[1].index

\* C23: group_items buckets by the first field only; an item whose value for
\* it is not falsy and whose name and directory base name do not start with
\* '.' is in exactly one bucket, the one of its value; the buckets are in
\* ascending order of their key, descending for the suffix ':dsc'; with no
\* field the only bucket is 'None' and holds every item.
C23_GroupByFirstField ==
  (last.op = "group_items") =>
    LET res == last.result
        items == last.items
    IN IF last.group_by = <<>> THEN res = <<[key |-> "None", items |-> items]>>
       ELSE /\ \A i \in 1..Len(items) :
                 (/\ items[i].index # 0
                  /\ items[i].name[1] # "."
                  /\ (items[i].directory = <<>>
                        \/ items[i].directory[Len(items[i].directory)][1] # "."))
                 => /\ \E g \in 1..Len(res) :
                         /\ res[g].key = items[i].index
                         /\ \E k \in 1..Len(res[g].items) : res[g].items[k] = items[i]
                         /\ \A h \in 1..Len(res) : \A k \in 1..Len(res[h].items) :
                              res[h].items[k] = items[i] => h = g
                    /\ \A g \in 1..Len(res) :
                         Cardinality({k \in 1..Len(res[g].items) : res[g].items[k] = items[i]}) <= 1
            /\ \A g \in 1..Len(res) : \A h \in 1..Len(res) :
                 g < h => IF last.group_by[1] = "index:dsc" THEN res[g].key > res[h].key
                          ELSE res[g].key < res[h].key

C23_Witness ==
  /\ last.op = "group_items" /\ last.group_by = <<"index:dsc", "name">>
  /\ Len(last.result) = 2 /\ Len(last.items) = 3
  /\ last.items[1].name = <<".", "a">> /\ last.items[2].index = 1 /\ last.items[3].index = 2
  /\ Len(last.result[1].items) = 1 /\ Len(last.result[2].items) = 1

\* C29: a filter whose condition is none of the six counts as not matching,
\* wherever it stands in its block: the block is evaluated as if each filter
\* had its own outcome.
C29_UnknownConditionFails ==
  (last.op = "match_unknown") =>
    LET own(f) == f[2] \in Conditions /\ filter_match(last.data, f)
    IN last.result = IF last.operator = "or"
                     THEN own(last.filters[1]) \/ own(last.filters[2])
                     ELSE own(last.filters[1]) /\ own(last.filters[2])

\* C25: when a statement raises a storage error inside _execute the error is
\* logged and not raised again, no later statement of the command is
\* executed, and the calling query returns normally with an empty result.
C25_StorageErrorSwallowed ==
  /\ (last.op = "_execute") =>
       /\ ~last.call.raised
       /\ \A k \in 1..Len(last.statements) :
            (last.statements[k] \in last.failing
               /\ \A j \in 1..(k - 1) : last.statements[j] \notin last.failing)
            => /\ last.call.executed = SubSeq(last.statements, 1, k - 1)
               /\ last.call.log = <<"error">>
               /\ last.call.rows = <<>>
  /\ (last.op = "query" /\ \E k \in 1..Len(last.statements) : last.statements[k] \in last.failing)
       => ~last.raised /\ last.result = IF last.kind = "first" THEN <<None>> ELSE <<>>

C25_Witness ==
  /\ last.op = "_execute" /\ Len(last.statements) = 3
  /\ last.statements[2] \in last.failing /\ last.statements[1] \notin last.failing
  /\ last.statements[3] \notin last.failing
  /\ last.call.executed = <<last.statements[1]>>

\* C26: when a sync() has ended normally, no primary row is left for an
\* identifier whose file is not on disk, whatever the form of the path.
C26_SyncRemovesDeleted ==
  (SyncEnded /\ ~last.raised) => \A i \in DOMAIN rows : format_identifier(i) \in disk

\* C27: after clear() the results and the grouped results are empty, whatever
\* search() stored before, and dataChanged was emitted once.
C27_ClearEmptiesResults ==
  (last.op = "clear") =>
    /\ search_data.results = {}
    /\ search_data.grouped_results = <<>>
    /\ last.signals = <<"dataChanged">>

\* the number of emissions of signal among the first n of a call
Emitted(emissions, signal, n) ==
  Cardinality({k \in 1..n : emissions[k] = signal})

\* C30: in find(), find_data(), find_items() and search() every searchStarted
\* has its searchFinished before the call returns, and a search() made while
\* search is disabled emits nothing and leaves the results as they were.
C30_SearchSignalsPaired ==
  /\ (last.op \in {"find", "find_data", "find_items", "search"}) =>
       /\ Emitted(last.signals, "searchStarted", Len(last.signals))
            = Emitted(last.signals, "searchFinished", Len(last.signals))
       /\ \A n \in 0..Len(last.signals) :
            Emitted(last.signals, "searchFinished", n) <= Emitted(last.signals, "searchStarted", n)
  /\ (last.op = "search" /\ ~last.enabled) =>
       last.signals = <<>> /\ search_data = last.before

\* C28: delete_with_dependencies(recursive=True) comes to an end on every
\* dependency graph of the library, mutual dependencies included, and calls
\* delete() at most once on each item.
C28_DeleteTerminates ==
  (last.op = "delete_with_dependencies") =>
    /\ ~last.diverged
    /\ \A i \in 1..Len(last.deleted) : \A j \in 1..Len(last.deleted) :
         last.deleted[i] = last.deleted[j] => i = j

====
